---- MODULE Spec2Model ----
(***************************************************************************)
(* Authentication and token-lifecycle subsystem of the demo REST backend:  *)
(* in-memory rate limiter, credential store (users table), token codec,    *)
(* authentication middleware chain and the auth/user route handlers.       *)
(*                                                                         *)
(* One module, several specifications over the same variables: each        *)
(* specification drives one part of the system and leaves the rest fixed.  *)
(*   SpecRL     the rate limiter alone (SecurityUtils)                     *)
(*   SpecReg    concurrent registrations                                   *)
(*   SpecLogin  logins against a seeded account, with the login limiter    *)
(*   SpecPwd    password changes, logins and deletions of one account      *)
(*   SpecStore  the User model called directly and over HTTP               *)
(*   SpecGate   the gates and the token consumers                          *)
(*   SpecAcct   registrations, profile updates and deletions over HTTP     *)
(*   SpecCodec  JWTUtils called directly as the clock advances             *)
(*   SpecSess   a registration, then /me and /refresh with its tokens      *)
(*   SpecWin    the rate limiter beside a store that is never cleaned up   *)
(***************************************************************************)
EXTENDS Integers, Sequences, FiniteSets, TLC

(***************************************************************************)
(* Bounds of the model                                                     *)
(***************************************************************************)
\* largest maxAttempts argument handed to checkRateLimit by the driver
MaxN == 2
\* number of clock advances in one behaviour
MaxTicks == 3
\* number of requests served in one behaviour
MaxRequests == 3
\* number of login requests served in one behaviour
MaxLogins == 6
\* number of requests sent through the gates in one behaviour
MaxGateRequests == 2
\* direct JWTUtils calls made in SpecCodec
MaxCodecCalls == 3
\* login requests in flight at the same time in SpecConc
MaxConcurrent == 6
\* number of requests served in one behaviour of SpecTok
MaxTokRequests == 5
\* number of logins served in one behaviour of SpecRem
MaxRememberLogins == 3

(***************************************************************************)
(* Program constants                                                       *)
(***************************************************************************)
\* Math.ceil((resetTime - now) / 1000): milliseconds per second
MsPerSec == 1000

\* client addresses and the rate-limit keys built from them
IPs == {"ip1", "ip2"}
LoginKey(ip) == <<"login", ip>>
Keys == {LoginKey(ip) : ip \in IPs}

\* windowMs arguments used by the driver (milliseconds)
Windows == {1000}
\* maxAttempts arguments used by the driver
AttemptArgs == 0..MaxN
\* clock advances (milliseconds): within a second, just short of a second
Steps == {1, 999}

VARIABLES
  clock,          \* Date.now(), milliseconds
  ticks,          \* number of clock advances so far
  rateLimitStore, \* SecurityUtils.rateLimitStore: Map key -> {attempts, resetTime}
  rlRet,          \* <<>> or <<r>>: the last checkRateLimit call, its arguments, its result,
                  \* the result it would have on shadowStore, whether it followed a reset
  winCalls,       \* per key: consecutive same-argument checks since the key had no live record;
                  \* -1 when the last call on the key was resetRateLimit
  winN,           \* per key: maxAttempts of those checks
  shadowStore,    \* SpecWin: rateLimitStore as it would be had cleanupRateLimit never run
  users,          \* the users table: Map id -> [email, hash]
  nextId,         \* next value of the id sequence (id SERIAL PRIMARY KEY)
  dbUp,           \* FALSE while store queries fail
  tokens,         \* every token the server has issued
  req,            \* per worker: the request it is serving, and where it stands
  started,        \* number of requests started so far
  lastVerify      \* <<>> or <<v>>: the last password verification that resolved

rlVars == <<rateLimitStore, rlRet, winCalls, winN, shadowStore>>
timeVars == <<clock, ticks>>
dbVars == <<users, nextId, dbUp>>
reqVars == <<tokens, req, started, lastVerify>>
vars == <<clock, ticks, rateLimitStore, rlRet, winCalls, winN, shadowStore,
          users, nextId, dbUp, tokens, req, started, lastVerify>>

(***************************************************************************)
(* Rate limiter (SecurityUtils)                                            *)
(***************************************************************************)
\* a Map: a function whose domain is the set of keys present
EmptyMap == [k \in {} |-> 0]
MapSet(m, key, v) == [k \in DOMAIN m \cup {key} |-> IF k = key THEN v ELSE m[k]]
MapDelete(m, ks) == [k \in DOMAIN m \ ks |-> m[k]]

CeilDiv(a, b) == IF a >= 0 THEN (a + b - 1) \div b ELSE -((-a) \div b)

\* now > record.resetTime
WindowPassedOff(now, rec) == now >= rec.resetTime
WindowPassed(now, rec) == now > rec.resetTime

\* record.attempts >= maxAttempts
LimitExceededOff(attempts, maxAttempts) == attempts > maxAttempts
LimitExceeded(attempts, maxAttempts) == attempts >= maxAttempts

\* the record checkRateLimit works on: the stored object, or a fresh one,
\* reset when its window has passed
RecordAt(store, key, now, windowMs) ==
  LET record == IF key \notin DOMAIN store
                  THEN [attempts |-> 0, resetTime |-> now + windowMs]
                  ELSE store[key]
  IN IF WindowPassed(now, record)
       THEN [attempts |-> 0, resetTime |-> now + windowMs]
       ELSE record

\* the value checkRateLimit returns
CheckResult(store, key, maxAttempts, windowMs, now) ==
  LET record == RecordAt(store, key, now, windowMs)
  IN IF LimitExceeded(record.attempts, maxAttempts)
       THEN [allowed |-> FALSE, remaining |-> 0, resetTime |-> record.resetTime,
             retryAfter |-> CeilDiv(record.resetTime - now, MsPerSec)]
       ELSE [allowed |-> TRUE, remaining |-> maxAttempts - (record.attempts + 1),
             resetTime |-> record.resetTime, retryAfter |-> 0]

\* the store checkRateLimit leaves: a stored record is the object the function
\* mutates, so a window reset reaches the store even when the call is denied;
\* a fresh record reaches the store only through set()
CheckStore(store, key, maxAttempts, windowMs, now) ==
  LET record == RecordAt(store, key, now, windowMs)
  IN IF LimitExceeded(record.attempts, maxAttempts)
       THEN IF key \notin DOMAIN store THEN store ELSE [store EXCEPT ![key] = record]
       ELSE MapSet(store, key, [record EXCEPT !.attempts = @ + 1])

ResetStoreOff(store, key) == store
ResetStoreAll(store, key) == EmptyMap
\* resetRateLimit
ResetStore(store, key) == MapDelete(store, {key})

\* cleanupRateLimit
CleanupStore(store, now) ==
  MapDelete(store, {k \in DOMAIN store : WindowPassed(now, store[k])})

\* a key has a live record when one is stored and its window has not passed
Live(store, key, now) == key \in DOMAIN store /\ ~WindowPassed(now, store[key])

\* bookkeeping of the run of checks a key is in
NextWinCalls(key, maxAttempts) ==
  IF ~Live(rateLimitStore, key, clock) THEN 1
  ELSE IF winCalls[key] > 0 /\ winN[key] = maxAttempts THEN winCalls[key] + 1
  ELSE 0

\* checkRateLimit on the store of the program; afterReset is what the caller
\* records about the call that came before
CheckRateLimitOn(key, maxAttempts, windowMs, afterReset) ==
  /\ rateLimitStore' = CheckStore(rateLimitStore, key, maxAttempts, windowMs, clock)
  /\ rlRet' = <<[key |-> key, maxAttempts |-> maxAttempts, windowMs |-> windowMs, at |-> clock,
               res |-> CheckResult(rateLimitStore, key, maxAttempts, windowMs, clock),
               shadow |-> CheckResult(shadowStore, key, maxAttempts, windowMs, clock),
               afterReset |-> afterReset]>>
  /\ winCalls' = [winCalls EXCEPT ![key] = NextWinCalls(key, maxAttempts)]
  /\ winN' = [winN EXCEPT ![key] = maxAttempts]

CheckRateLimit(key, maxAttempts, windowMs) ==
  /\ CheckRateLimitOn(key, maxAttempts, windowMs, FALSE)
  /\ UNCHANGED shadowStore

\* resetRateLimit on the store of the program
ResetRateLimitOn(key) ==
  /\ rateLimitStore' = ResetStore(rateLimitStore, key)
  /\ winCalls' = [winCalls EXCEPT ![key] = -1]
  /\ UNCHANGED <<rlRet, winN>>

ResetRateLimit(key) ==
  /\ ResetRateLimitOn(key)
  /\ UNCHANGED shadowStore

\* the same calls made on the program's store and on a store that is never
\* cleaned up
CheckRateLimitBoth(key, maxAttempts, windowMs) ==
  /\ CheckRateLimitOn(key, maxAttempts, windowMs, winCalls[key] = -1)
  /\ shadowStore' = CheckStore(shadowStore, key, maxAttempts, windowMs, clock)

ResetRateLimitBoth(key) ==
  /\ ResetRateLimitOn(key)
  /\ shadowStore' = ResetStore(shadowStore, key)

CleanupRateLimit ==
  /\ rateLimitStore' = CleanupStore(rateLimitStore, clock)
  /\ UNCHANGED <<rlRet, winCalls, winN, shadowStore>>

Tick(d) ==
  /\ ticks < MaxTicks
  /\ clock' = clock + d
  /\ ticks' = ticks + 1

InitTime == clock = 0 /\ ticks = 0

InitRL ==
  /\ rateLimitStore = EmptyMap
  /\ shadowStore = EmptyMap
  /\ rlRet = <<>>
  /\ winCalls = [k \in Keys |-> 0]
  /\ winN = [k \in Keys |-> 0]

(***************************************************************************)
(* Strings: an email is a sequence of characters                           *)
(***************************************************************************)
EmailLower == <<"a", "@", "b", ".", "c">>
EmailUpper == <<"A", "@", "b", ".", "c">>
EmailOther == <<"z", "@", "b", ".", "c">>
EmailNoDot == <<"a", "@", "b">>
EmailPadded == <<"a", "@", "b", ".", "c", " ">>
NoString == <<>>

IsSpace(c) == c = " "

\* String.prototype.toLowerCase, on the alphabet in use
LowerChar(c) == CASE c = "A" -> "a" [] c = "B" -> "b" [] c = "Z" -> "z" [] OTHER -> c
ToLowerCase(s) == [i \in 1..Len(s) |-> LowerChar(s[i])]

\* String.prototype.trim
RECURSIVE TrimStart(_)
TrimStart(s) == IF s # <<>> /\ IsSpace(Head(s)) THEN TrimStart(Tail(s)) ELSE s
RECURSIVE TrimEnd(_)
TrimEnd(s) == IF s # <<>> /\ IsSpace(s[Len(s)]) THEN TrimEnd(SubSeq(s, 1, Len(s) - 1)) ELSE s
Trim(s) == TrimEnd(TrimStart(s))

\* the decimal digits
DigitValue(c) ==
  CASE c = "0" -> 0 [] c = "1" -> 1 [] c = "2" -> 2 [] c = "3" -> 3 [] c = "4" -> 4
    [] c = "5" -> 5 [] c = "6" -> 6 [] c = "7" -> 7 [] c = "8" -> 8 [] c = "9" -> 9
    [] OTHER -> -1
DigitChar(d) == CHOOSE c \in {"0", "1", "2", "3", "4", "5", "6", "7", "8", "9"} : DigitValue(c) = d
\* `${n}`, for an integer n >= 0
RECURSIVE NumberToString(_)
NumberToString(n) ==
  IF n < 10 THEN <<DigitChar(n)>> ELSE Append(NumberToString(n \div 10), DigitChar(n % 10))
\* parseInt(s): leading white space is skipped, the digits up to the first
\* character that is none are read; NaN (here -1) when there is no digit
RECURSIVE ParseDigits(_, _)
ParseDigits(s, acc) ==
  IF s = <<>> \/ DigitValue(Head(s)) = -1 THEN acc
  ELSE ParseDigits(Tail(s), 10 * acc + DigitValue(Head(s)))
ParseInt(s) ==
  IF TrimStart(s) = <<>> \/ DigitValue(Head(TrimStart(s))) = -1 THEN -1
  ELSE ParseDigits(TrimStart(s), 0)

\* User.isValidEmail: /^[^\s@]+@[^\s@]+\.[^\s@]+$/
IsValidEmail(s) ==
  /\ \A i \in 1..Len(s) : ~IsSpace(s[i])
  /\ \E i \in 2..Len(s) :
       /\ s[i] = "@"
       /\ \A j \in 1..Len(s) : s[j] = "@" => j = i
       /\ \E j \in (i + 2)..(Len(s) - 1) : s[j] = "."

\* User.isValidPassword: password && password.length >= 6
MinPasswordLen == 6
IsValidPassword(p) == p # "" /\ Len(p) >= MinPasswordLen

\* bcrypt.hash / bcrypt.compare: a salted one-way hash that compare() matches
\* against the password it was made from and no other
HashPassword(p) == <<"bcrypt", p>>
NoHash == <<>>
BcryptCompare(p, h) == h = HashPassword(p)

(***************************************************************************)
(* Credential store: the users table and the User model                    *)
(***************************************************************************)
\* a User object; id 0 stands for "no user" (null)
NoUser == [id |-> 0, email |-> NoString, hash |-> NoHash]
UserOf(id, row) == [id |-> id, email |-> row.email, hash |-> row.hash]

\* SELECT * FROM users WHERE email = $1 (first row, or null)
RowIdsByEmail(table, e) == {i \in DOMAIN table : table[i].email = e}
SelectByEmail(table, e) ==
  IF RowIdsByEmail(table, e) = {} THEN NoUser
  ELSE LET i == CHOOSE i \in RowIdsByEmail(table, e) : TRUE IN UserOf(i, table[i])

\* User.findByEmail: null for an empty argument, else the lookup of email.toLowerCase()
FindByEmail(table, e) == IF e = NoString THEN NoUser ELSE SelectByEmail(table, ToLowerCase(e))

\* User.findById: null for a falsy id, else SELECT * FROM users WHERE id = $1
FindByIdOff(table, id) ==
  IF id = 0 \/ DOMAIN table = {} THEN NoUser
  ELSE IF id \in DOMAIN table THEN UserOf(id, table[id])
  ELSE LET i == CHOOSE i \in DOMAIN table : TRUE IN UserOf(i, table[i])
FindById(table, id) == IF id = 0 \/ id \notin DOMAIN table THEN NoUser ELSE UserOf(id, table[id])

\* email VARCHAR(255) UNIQUE: the constraint compares the stored strings
UniqueViolation(table, id, e) == \E i \in DOMAIN table : i # id /\ table[i].email = e

\* user.verifyPassword: false without a candidate or without a hash on the object
VerifyPassword(user, candidate) ==
  IF candidate = "" \/ user.hash = NoHash THEN FALSE ELSE BcryptCompare(candidate, user.hash)

(***************************************************************************)
(* Token codec (JWTUtils over jsonwebtoken)                                *)
(***************************************************************************)
\* expiresIn values in seconds: '24h', '7d'
AuthTtl == 86400
RefreshTtl == 604800

NowSec(now) == now \div MsPerSec

\* a token string, by what the codec can tell of it
\*   fmt: "jwt" three dot-separated segments, "garbage" anything else, "empty" ""
\*   sig: "ok" signed with the server secret, "bad" otherwise
Token(fmt, sig, userId, email, type, iat, exp) ==
  [fmt |-> fmt, sig |-> sig, userId |-> userId, email |-> email, type |-> type,
   iat |-> iat, exp |-> exp]
EmptyToken == Token("empty", "bad", 0, NoString, "", 0, 0)
GarbageToken == Token("garbage", "bad", 0, NoString, "", 0, 0)

\* JWTUtils.generateToken: jwt.sign(payload, secret, {expiresIn})
GenerateToken(userId, email, type, ttl, now) ==
  Token("jwt", "ok", userId, email, type, NowSec(now), NowSec(now) + ttl)
\* JWTUtils.generateAuthToken(user): the default expiresIn
GenerateAuthToken(user, now) == GenerateToken(user.id, user.email, "auth", AuthTtl, now)
\* JWTUtils.generateRefreshToken(user): expiresIn '7d'
GenerateRefreshToken(user, now) == GenerateToken(user.id, user.email, "refresh", RefreshTtl, now)

\* JWTUtils.isValidTokenFormat
IsValidTokenFormat(tok) == tok.fmt = "jwt"

JwtExpiredOff(tok, now) == NowSec(now) > tok.exp
\* jwt.verify: structure, then signature, then expiry (now >= exp, in seconds)
JwtExpired(tok, now) == NowSec(now) >= tok.exp
\* JWTUtils.verifyToken: "ok", or the message of the Error it throws
VerifyToken(tok, now) ==
  IF tok.fmt = "empty" THEN "Token must be a valid string"
  ELSE IF tok.fmt # "jwt" \/ tok.sig # "ok" THEN "Invalid token"
  ELSE IF JwtExpired(tok, now) THEN "Token has expired"
  ELSE "ok"

\* error.message.includes('expired') on the messages verifyToken throws
MessageIncludesExpiredOff(msg) == FALSE
MessageIncludesExpired(msg) == msg = "Token has expired"

\* JWTUtils.decodeToken: jwt.decode reads the payload of a three-segment
\* token without checking its signature; null for anything else
DecodeToken(tok) ==
  IF tok.fmt = "jwt"
    THEN <<[userId |-> tok.userId, email |-> tok.email, type |-> tok.type,
            iat |-> tok.iat, exp |-> tok.exp]>>
    ELSE <<>>

\* JWTUtils.isTokenExpired: decoded.payload.exp < floor(Date.now() / 1000),
\* true for a token that does not decode
IsTokenExpired(tok, now) ==
  IF DecodeToken(tok) = <<>> THEN TRUE ELSE DecodeToken(tok)[1].exp < NowSec(now)

\* JWTUtils.getTokenRemainingTime: Math.max(0, exp - floor(Date.now() / 1000)),
\* 0 for a token that does not decode
GetTokenRemainingTime(tok, now) ==
  IF DecodeToken(tok) = <<>> THEN 0
  ELSE IF DecodeToken(tok)[1].exp - NowSec(now) > 0 THEN DecodeToken(tok)[1].exp - NowSec(now)
  ELSE 0

\* JWTUtils.getUserFromToken: the claims of a token that verifies, else null
GetUserFromTokenOk(tok, now) == VerifyToken(tok, now) = "ok"

(***************************************************************************)
(* Authentication middleware chain                                         *)
(***************************************************************************)
\* req.headers.authorization: absent, or a value with or without 'Bearer '
Header(present, tok) == [present |-> present, tok |-> tok]
NoHeader == Header(FALSE, EmptyToken)

\* what a gate did: called next() (with the user it attached), or sent a response
Outcome(next, status, code, msg, user, lookups) ==
  [next |-> next, status |-> status, code |-> code, msg |-> msg, user |-> user,
   lookups |-> lookups]
Pass(user, lookups) == Outcome(TRUE, 0, "", "", user, lookups)
Reject(status, code, msg, lookups) == Outcome(FALSE, status, code, msg, NoUser, lookups)

\* decoded.type !== 'auth'
WrongAuthTypeOff(tok) == FALSE
WrongAuthType(tok) == tok.type # "auth"
\* decoded.type !== 'refresh'
WrongRefreshTypeOff(tok) == FALSE
WrongRefreshType(tok) == tok.type # "refresh"

\* authenticateToken, run against the table at the moment of its lookup;
\* up = FALSE: the store query throws
AuthenticateToken(hdr, table, up, now) ==
  IF ~hdr.present
    THEN Reject(401, "AUTH_TOKEN_MISSING", "Authorization header is required", 0)
  ELSE IF hdr.tok.fmt = "empty"
    THEN Reject(401, "AUTH_TOKEN_MISSING", "Token is required", 0)
  ELSE IF ~IsValidTokenFormat(hdr.tok)
    THEN Reject(401, "AUTH_TOKEN_INVALID", "Invalid token format", 0)
  ELSE IF VerifyToken(hdr.tok, now) # "ok"
    THEN Reject(401,
                IF MessageIncludesExpired(VerifyToken(hdr.tok, now))
                  THEN "AUTH_TOKEN_EXPIRED" ELSE "AUTH_TOKEN_INVALID",
                VerifyToken(hdr.tok, now), 0)
  ELSE IF WrongAuthType(hdr.tok)
    THEN Reject(401, "AUTH_TOKEN_INVALID", "Invalid token type", 0)
  ELSE IF hdr.tok.userId # 0 /\ ~up
    THEN Reject(500, "INTERNAL_ERROR", "Authentication failed", 1)
  ELSE IF FindById(table, hdr.tok.userId) = NoUser
    THEN Reject(401, "USER_NOT_FOUND", "User not found", IF hdr.tok.userId # 0 THEN 1 ELSE 0)
  ELSE Pass(FindById(table, hdr.tok.userId), 1)

\* optionalAuth: next() without an identity when req.headers.authorization is
\* not set, authenticateToken otherwise
OptionalAuthOff(hdr, table, up, now) ==
  IF ~hdr.present THEN Pass(NoUser, 0)
  ELSE IF ~AuthenticateToken(hdr, table, up, now).next
    THEN Pass(NoUser, AuthenticateToken(hdr, table, up, now).lookups)
  ELSE AuthenticateToken(hdr, table, up, now)
OptionalAuth(hdr, table, up, now) ==
  IF ~hdr.present THEN Pass(NoUser, 0) ELSE AuthenticateToken(hdr, table, up, now)

\* validateRefreshToken: the token comes in the request body
ValidateRefreshToken(tok, table, up, now) ==
  IF tok.fmt = "empty"
    THEN Reject(400, "AUTH_TOKEN_MISSING", "Refresh token is required", 0)
  ELSE IF VerifyToken(tok, now) # "ok"
    THEN Reject(401, "AUTH_TOKEN_INVALID", "Invalid refresh token", 0)
  ELSE IF WrongRefreshType(tok)
    THEN Reject(401, "AUTH_TOKEN_INVALID", "Invalid token type", 0)
  ELSE IF tok.userId # 0 /\ ~up
    THEN Reject(500, "INTERNAL_ERROR", "Token validation failed", 1)
  ELSE IF FindById(table, tok.userId) = NoUser
    THEN Reject(401, "USER_NOT_FOUND", "User not found", IF tok.userId # 0 THEN 1 ELSE 0)
  ELSE Pass(FindById(table, tok.userId), 1)

\* requireOwnership: parseInt(req.params.userId || req.params.id) against
\* req.user.id, when req.user and req.token are both set
RequireOwnershipOff(user, token, param) ==
  IF param # user.id
    THEN Outcome(TRUE, 403, "AUTH_CREDENTIALS_INVALID", "Access denied: insufficient permissions",
                 user, 0)
    ELSE Pass(user, 0)
RequireOwnership(user, token, param) ==
  IF user = NoUser \/ ~token
    THEN Reject(401, "AUTH_TOKEN_MISSING", "Authentication required", 0)
  ELSE IF param # user.id
    THEN Reject(403, "AUTH_CREDENTIALS_INVALID", "Access denied: insufficient permissions", 0)
  ELSE Pass(user, 0)

\* extractUserFromToken: no store lookup; the identity is the token's claims
ExtractUserFromToken(hdr, now) ==
  IF ~hdr.present
    THEN Reject(401, "AUTH_TOKEN_MISSING", "Authorization header is required", 0)
  ELSE IF hdr.tok.fmt = "empty" \/ ~IsValidTokenFormat(hdr.tok)
    THEN Reject(401, "AUTH_TOKEN_INVALID", "Invalid token", 0)
  ELSE IF ~GetUserFromTokenOk(hdr.tok, now)
    THEN Reject(401, "AUTH_TOKEN_INVALID", "Invalid or expired token", 0)
  ELSE Pass([id |-> hdr.tok.userId, email |-> hdr.tok.email, hash |-> NoHash], 0)

\* GET /api/auth/me: the handler reads the header itself
GetMe(hdr, table, up, now) ==
  IF ~hdr.present
    THEN Reject(401, "AUTH_TOKEN_INVALID", "Authorization header required", 0)
  ELSE IF ~GetUserFromTokenOk(hdr.tok, now)
    THEN Reject(401, "AUTH_TOKEN_INVALID", "Invalid or expired token", 0)
  ELSE IF hdr.tok.userId # 0 /\ ~up
    THEN Reject(500, "INTERNAL_ERROR", "Internal server error", 1)
  ELSE IF FindById(table, hdr.tok.userId) = NoUser
    THEN Reject(404, "USER_NOT_FOUND", "User with ID not found",
                IF hdr.tok.userId # 0 THEN 1 ELSE 0)
  ELSE Pass(FindById(table, hdr.tok.userId), 1)

(***************************************************************************)
(* Requests: each worker serves one request at a time, step by step; a     *)
(* step ends where the handler awaits the store (or bcrypt)                *)
(***************************************************************************)
Procs == {1, 2}

NoResp == [n |-> 0, status |-> 0, code |-> "", msg |-> "", retryAfter |-> -1]

\* what a call returned besides a response: the decoded type, a number, a
\* boolean, a token
NoRet == [kind |-> "", num |-> 0, flag |-> FALSE, tok |-> EmptyToken]

IdleReq ==
  [route |-> "idle", pc |-> "idle", hdr |-> NoHeader, email |-> NoString, arg |-> NoString,
   password |-> "", password2 |-> "", param |-> 0, path |-> NoString, ip |-> "",
   user |-> NoUser, resp |-> NoResp, passed |-> <<>>, handlerRan |-> FALSE,
   lookups |-> 0, mutated |-> FALSE, raced |-> FALSE, attempt |-> 0,
   rejectedBy |-> "", seen |-> FALSE, at |-> 0, gone |-> FALSE, dbOk |-> TRUE,
   ret |-> NoRet, remember |-> FALSE, err |-> <<>>, env |-> "", body |-> <<>>]

\* res.status(status).json({error: {code, message}}) / res.json(...)
Send(r, status, code, msg) ==
  [r EXCEPT !.pc = "done",
            !.resp = [@ EXCEPT !.n = @ + 1, !.status = status, !.code = code, !.msg = msg]]

\* errorHandler: res.set('Retry-After', error.retryAfter) only when
\* error.statusCode === 429 && error.retryAfter (a truthy value)
RetryAfterHeader(status, retryAfter) == IF status = 429 /\ retryAfter # 0 THEN retryAfter ELSE -1

\* errorHandler on a RateLimitError
SendRateLimitedOff(r, retryAfter) ==
  [Send(r, 429, "RATE_LIMIT_EXCEEDED", "Too many login attempts. Please try again later.")
     EXCEPT !.resp.retryAfter = RetryAfterHeader(429, retryAfter), !.pc = "login_find"]
SendRateLimited(r, retryAfter) ==
  [Send(r, 429, "RATE_LIMIT_EXCEEDED", "Too many login attempts. Please try again later.")
     EXCEPT !.resp.retryAfter = RetryAfterHeader(429, retryAfter)]

\* handleDatabaseError on a unique violation (code 23505) of users_email_key,
\* as errorHandler answers it
SendUniqueViolationOff(r) == Send(r, 500, "DATABASE_QUERY_ERROR", "Database operation failed")
SendUniqueViolation(r) == Send(r, 409, "USER_ALREADY_EXISTS", "User with email (detail) already exists")
\* errorHandler on an Error that is no AppError
SendInternal(r) == Send(r, 500, "INTERNAL_ERROR", "Internal server error")

SetReq(p, r) == req' = [req EXCEPT ![p] = r]
Begin(p) == req[p].pc = "idle" /\ started' = started + 1

InitDb == users = EmptyMap /\ nextId = 1 /\ dbUp = TRUE
InitReq ==
  /\ tokens = {}
  /\ req = [p \in Procs |-> IdleReq]
  /\ started = 0
  /\ lastVerify = <<>>

\* the worker takes the next request
Finish(p) ==
  /\ req[p].pc = "done"
  /\ SetReq(p, IdleReq)
  /\ UNCHANGED <<timeVars, rlVars, dbVars, tokens, started, lastVerify>>

(***************************************************************************)
(* User.create, from POST /api/auth/register or called directly            *)
(***************************************************************************)
\* the checks both the route and User.create make before the first query
CreateInputError(email, password) ==
  IF email = NoString \/ password = "" THEN "missing"
  ELSE IF ~IsValidEmail(email) THEN "email"
  ELSE IF ~IsValidPassword(password) THEN "password"
  ELSE "ok"

\* email.toLowerCase().trim(), the email the register route hands to User.create
NormalizeEmailOff(email) == email
NormalizeEmail(email) == Trim(ToLowerCase(email))

\* POST /api/auth/register, up to the first await of User.create
RegisterBegin(p, email, password, confirm) ==
  /\ Begin(p)
  /\ LET r == [IdleReq EXCEPT !.route = "register", !.email = email, !.password = password,
                              !.password2 = confirm, !.handlerRan = TRUE]
         e == CreateInputError(email, password)
     IN SetReq(p,
          IF e = "missing"
            THEN Send(r, 400, "MISSING_REQUIRED_FIELDS", "Missing required fields: email, password")
          ELSE IF e = "email"
            THEN Send(r, 400, "USER_INVALID_EMAIL", "Invalid email format")
          ELSE IF e = "password"
            THEN Send(r, 400, "USER_INVALID_PASSWORD", "Password must be at least 6 characters long")
          ELSE IF confirm # "" /\ password # confirm
            THEN Send(r, 400, "VALIDATION_ERROR", "Passwords do not match")
          ELSE [r EXCEPT !.pc = "create_find", !.arg = NormalizeEmail(email)])
  /\ UNCHANGED <<timeVars, rlVars, dbVars, tokens, lastVerify>>

\* User.create called directly (seeding, tests), up to its first await
CreateBegin(p, email, password) ==
  /\ Begin(p)
  /\ LET r == [IdleReq EXCEPT !.route = "create", !.email = email, !.password = password,
                              !.handlerRan = TRUE]
         e == CreateInputError(email, password)
     IN SetReq(p,
          IF e = "missing" THEN Send(r, 0, "THROWN", "Email and password are required")
          ELSE IF e = "email" THEN Send(r, 0, "THROWN", "Invalid email format")
          ELSE IF e = "password"
            THEN Send(r, 0, "THROWN", "Password must be at least 6 characters long")
          ELSE [r EXCEPT !.pc = "create_find", !.arg = email])
  /\ UNCHANGED <<timeVars, rlVars, dbVars, tokens, lastVerify>>

\* the requests that have passed the existence check for the same email as p
\* and have not inserted yet
Racing(p) ==
  {q \in Procs \ {p} : req[q].pc = "create_insert" /\ req[q].arg = req[p].arg}

\* User.create: const existingUser = await User.findByEmail(email)
CreateFind(p) ==
  /\ req[p].pc = "create_find"
  /\ LET r == [req[p] EXCEPT !.lookups = @ + 1]
     IN IF FindByEmail(users, r.arg) # NoUser
          THEN SetReq(p, IF r.route = "register"
                           THEN Send(r, 409, "USER_ALREADY_EXISTS", "User with email already exists")
                           ELSE Send(r, 0, "THROWN", "User with this email already exists"))
          ELSE req' = [q \in Procs |->
                         IF q = p THEN [r EXCEPT !.pc = "create_insert", !.raced = Racing(p) # {}]
                         ELSE IF q \in Racing(p) THEN [req[q] EXCEPT !.raced = TRUE]
                         ELSE req[q]]
  /\ UNCHANGED <<timeVars, rlVars, dbVars, tokens, started, lastVerify>>

\* User.create: INSERT INTO users (email, password_hash) ... RETURNING; the
\* object it returns carries no password_hash
CreatedUser(r, id) == [id |-> id, email |-> r.arg, hash |-> NoHash]

CreateInsert(p) ==
  /\ req[p].pc = "create_insert"
  /\ nextId' = nextId + 1
  /\ UNCHANGED dbUp
  /\ LET r == req[p]
     IN IF UniqueViolation(users, 0, r.arg)
          THEN /\ SetReq(p, IF r.route = "register" THEN SendUniqueViolation(r)
                            ELSE Send(r, 0, "THROWN", "duplicate key value violates unique constraint"))
               /\ UNCHANGED <<users, tokens>>
          ELSE /\ users' = MapSet(users, nextId, [email |-> r.arg, hash |-> HashPassword(r.password)])
               /\ SetReq(p, [(IF r.route = "register"
                                THEN Send(r, 201, "", "User registered successfully")
                                ELSE Send(r, 0, "RETURNED", ""))
                               EXCEPT !.user = CreatedUser(r, nextId), !.mutated = TRUE])
               /\ tokens' = IF r.route = "register"
                              THEN tokens \cup {GenerateAuthToken(CreatedUser(r, nextId), clock),
                                                GenerateRefreshToken(CreatedUser(r, nextId), clock)}
                              ELSE tokens
  /\ UNCHANGED <<timeVars, rlVars, started, lastVerify>>

(***************************************************************************)
(* user.update / user.delete called directly on a User object              *)
(***************************************************************************)
\* user.update({email}) on an object loaded earlier with this id: UPDATE users
\* SET email = $1 WHERE id = $2; the email is stored as given
StoreUpdate(id, email) ==
  /\ id \in 1..(nextId - 1)
  /\ IsValidEmail(email)
  /\ id \in DOMAIN users
  /\ ~UniqueViolation(users, id, email)
  /\ users' = [users EXCEPT ![id].email = email]
  /\ UNCHANGED <<timeVars, rlVars, nextId, dbUp, reqVars>>

\* user.delete(): DELETE FROM users WHERE id = $1
StoreDelete(id) ==
  /\ id \in DOMAIN users
  /\ users' = MapDelete(users, {id})
  /\ UNCHANGED <<timeVars, rlVars, nextId, dbUp, reqVars>>

(***************************************************************************)
(* Gates as steps of a request                                             *)
(***************************************************************************)
\* a gate's outcome applied to the request: res...json() when it answers,
\* and the next stage when it calls next()
ApplyGateOff(r, name, o, nextPc) ==
  LET answered == IF o.status # 0
                    THEN [Send(r, o.status, o.code, o.msg) EXCEPT !.rejectedBy = name]
                    ELSE r
      counted == [answered EXCEPT !.lookups = @ + o.lookups]
  IN IF o.next
       THEN [counted EXCEPT !.passed = Append(@, name),
                            !.user = [o.user EXCEPT !.email = r.hdr.tok.email], !.pc = nextPc]
       ELSE counted
ApplyGate(r, name, o, nextPc) ==
  LET answered == IF o.status # 0
                    THEN [Send(r, o.status, o.code, o.msg) EXCEPT !.rejectedBy = name]
                    ELSE r
      counted == [answered EXCEPT !.lookups = @ + o.lookups]
  IN IF o.next
       THEN [counted EXCEPT !.passed = Append(@, name), !.user = o.user, !.pc = nextPc]
       ELSE counted

\* what a gate or handler saw when it read the token: the time, whether the
\* token's user was missing from the table, whether the store answered
Observed(r) ==
  [r EXCEPT !.seen = TRUE, !.at = clock, !.gone = r.hdr.tok.userId \notin DOMAIN users,
            !.dbOk = dbUp]

\* the first stage of each route
FirstStage(route) ==
  CASE route \in {"refresh_gate", "refresh_owned"} -> "refresh_gate"
    [] route \in {"optional", "optional_owned"} -> "optional_gate"
    [] route = "bare_owned" -> "own_gate"
    [] route = "extract" -> "extract_gate"
    [] route = "me" -> "me_handler"
    [] route = "refresh" -> "refresh_handler"
    [] route = "logout" -> "logout_handler"
    [] OTHER -> "auth_gate"

\* the stage that follows authenticateToken in each route
AfterAuth(route) ==
  CASE route = "profile_put" -> "put_check"
    [] route = "profile_delete" -> "delete_verify"
    [] route = "change_password" -> "change_verify"
    [] route = "owned" -> "own_gate"
    [] OTHER -> "handler"

\* authenticateToken, at its store lookup
AuthGate(p) ==
  /\ req[p].pc = "auth_gate"
  /\ SetReq(p, ApplyGate(Observed(req[p]), "authenticateToken",
                         AuthenticateToken(req[p].hdr, users, dbUp, clock),
                         AfterAuth(req[p].route)))
  /\ UNCHANGED <<timeVars, rlVars, dbVars, tokens, started, lastVerify>>

\* what the gates a request went through left in req.user and req.token:
\* authenticateToken sets both, validateRefreshToken req.user (and
\* req.refreshToken), extractUserFromToken req.token (and req.tokenUser),
\* optionalAuth both when it authenticates and null otherwise
SetsUser(name, hdr) ==
  name \in {"authenticateToken", "validateRefreshToken"} \/ (name = "optionalAuth" /\ hdr.present)
SetsToken(name, hdr) ==
  name \in {"authenticateToken", "extractUserFromToken"} \/ (name = "optionalAuth" /\ hdr.present)
ReqUser(r) ==
  IF \E i \in 1..Len(r.passed) : SetsUser(r.passed[i], r.hdr) THEN r.user ELSE NoUser
ReqToken(r) == \E i \in 1..Len(r.passed) : SetsToken(r.passed[i], r.hdr)

\* requireOwnership
OwnGate(p) ==
  /\ req[p].pc = "own_gate"
  /\ SetReq(p, ApplyGate(req[p], "requireOwnership",
                         RequireOwnership(ReqUser(req[p]), ReqToken(req[p]),
                                          ParseInt(req[p].path)), "handler"))
  /\ UNCHANGED <<timeVars, rlVars, dbVars, tokens, started, lastVerify>>

\* optionalAuth, at the store lookup of the authenticateToken it calls
OptGate(p) ==
  /\ req[p].pc = "optional_gate"
  /\ SetReq(p, ApplyGate(Observed(req[p]), "optionalAuth",
                         OptionalAuth(req[p].hdr, users, dbUp, clock),
                         IF req[p].route = "optional_owned" THEN "own_gate" ELSE "handler"))
  /\ UNCHANGED <<timeVars, rlVars, dbVars, tokens, started, lastVerify>>

\* validateRefreshToken, at its store lookup; hdr.tok holds req.body.refreshToken
RefreshGate(p) ==
  /\ req[p].pc = "refresh_gate"
  /\ SetReq(p, ApplyGate(Observed(req[p]), "validateRefreshToken",
                         ValidateRefreshToken(req[p].hdr.tok, users, dbUp, clock),
                         IF req[p].route = "refresh_owned" THEN "own_gate" ELSE "handler"))
  /\ UNCHANGED <<timeVars, rlVars, dbVars, tokens, started, lastVerify>>

\* extractUserFromToken
ExtractGate(p) ==
  /\ req[p].pc = "extract_gate"
  /\ SetReq(p, ApplyGate(Observed(req[p]), "extractUserFromToken",
                         ExtractUserFromToken(req[p].hdr, clock), "handler"))
  /\ UNCHANGED <<timeVars, rlVars, dbVars, tokens, started, lastVerify>>

\* the handler at the end of a chain of gates: it answers with req.user
Handler(p) ==
  /\ req[p].pc = "handler"
  /\ SetReq(p, Send([req[p] EXCEPT !.handlerRan = TRUE], 200, "", "ok"))
  /\ UNCHANGED <<timeVars, rlVars, dbVars, tokens, started, lastVerify>>

\* GET /api/auth/me, at its store lookup
MeHandler(p) ==
  /\ req[p].pc = "me_handler"
  /\ LET r == [Observed(req[p]) EXCEPT !.handlerRan = TRUE]
         o == GetMe(r.hdr, users, dbUp, clock)
     IN SetReq(p, IF o.next
                    THEN [Send(r, 200, "", "User information retrieved successfully")
                            EXCEPT !.user = o.user, !.lookups = @ + o.lookups]
                    ELSE [Send(r, o.status, o.code, o.msg) EXCEPT !.lookups = @ + o.lookups])
  /\ UNCHANGED <<timeVars, rlVars, dbVars, tokens, started, lastVerify>>

\* JWTUtils.refreshAccessToken: "ok", or the message of the Error it throws
RefreshAccessToken(tok, now) ==
  IF VerifyToken(tok, now) # "ok" THEN "Token refresh failed: " \o VerifyToken(tok, now)
  ELSE IF WrongRefreshType(tok) THEN "Token refresh failed: Invalid refresh token type"
  ELSE "ok"

\* POST /api/auth/refresh; hdr.tok holds req.body.refreshToken. Every message
\* refreshAccessToken throws includes 'refresh'
RefreshHandler(p) ==
  /\ req[p].pc = "refresh_handler"
  /\ LET r == [Observed(req[p]) EXCEPT !.handlerRan = TRUE]
         claims == [id |-> r.hdr.tok.userId, email |-> r.hdr.tok.email, hash |-> NoHash]
     IN IF r.hdr.tok.fmt = "empty"
          THEN /\ SetReq(p, Send(r, 400, "MISSING_REQUIRED_FIELDS",
                                 "Missing required fields: refreshToken"))
               /\ UNCHANGED tokens
        ELSE IF RefreshAccessToken(r.hdr.tok, clock) # "ok"
          THEN /\ SetReq(p, Send(r, 401, "AUTH_TOKEN_INVALID", "Invalid refresh token"))
               /\ UNCHANGED tokens
        ELSE /\ tokens' = tokens \cup {GenerateAuthToken(claims, clock)}
             /\ SetReq(p, [Send(r, 200, "", "Token refreshed successfully")
                             EXCEPT !.user = claims, !.at = clock,
                                    !.ret.tok = GenerateAuthToken(claims, clock)])
  /\ UNCHANGED <<timeVars, rlVars, dbVars, started, lastVerify>>

\* POST /api/auth/logout: no gate before it, and nothing but the response
LogoutHandlerOff(p) ==
  /\ req[p].pc = "logout_handler"
  /\ SetReq(p, [Send([req[p] EXCEPT !.handlerRan = TRUE], 200, "",
                      "Logout successful. Please remove tokens from client storage.")
                  EXCEPT !.at = clock])
  /\ tokens' = tokens \ {req[p].hdr.tok}
  /\ UNCHANGED <<timeVars, rlVars, dbVars, started, lastVerify>>
LogoutHandler(p) ==
  /\ req[p].pc = "logout_handler"
  /\ SetReq(p, [Send([req[p] EXCEPT !.handlerRan = TRUE], 200, "",
                      "Logout successful. Please remove tokens from client storage.")
                  EXCEPT !.at = clock])
  /\ UNCHANGED <<timeVars, rlVars, dbVars, tokens, started, lastVerify>>

\* a request arrives at a route
RouteBegin(p, route, hdr, email, password, password2, param) ==
  /\ Begin(p)
  /\ SetReq(p, [IdleReq EXCEPT !.route = route, !.pc = FirstStage(route), !.hdr = hdr,
                               !.email = email, !.password = password,
                               !.password2 = password2, !.param = param,
                               !.path = IF param = 0 THEN NoString ELSE NumberToString(param)])
  /\ UNCHANGED <<timeVars, rlVars, dbVars, tokens, lastVerify>>

\* a request arrives at a route with a parameter in its path (/user/:userId)
PathBegin(p, route, hdr, segment) ==
  /\ Begin(p)
  /\ SetReq(p, [IdleReq EXCEPT !.route = route, !.pc = FirstStage(route), !.hdr = hdr,
                               !.path = segment])
  /\ UNCHANGED <<timeVars, rlVars, dbVars, tokens, lastVerify>>

\* a password verification that has resolved: who, with what, the answer, and
\* the hash the table holds for that user at that moment
Verification(user, candidate) ==
  <<[id |-> user.id, candidate |-> candidate, accepted |-> VerifyPassword(user, candidate),
     stored |-> IF user.id \in DOMAIN users THEN users[user.id].hash ELSE NoHash]>>

\* user.verifyPassword(password) called on the object User.create returned
CreatedVerify(p) ==
  /\ req[p].route = "create" /\ req[p].pc = "done" /\ req[p].resp.code = "RETURNED"
  /\ lastVerify' = Verification(req[p].user, req[p].password)
  /\ UNCHANGED <<timeVars, rlVars, dbVars, tokens, req, started>>

(***************************************************************************)
(* PUT /api/user/profile                                                   *)
(***************************************************************************)
PutCheck(p) ==
  /\ req[p].pc = "put_check"
  /\ LET r == [req[p] EXCEPT !.handlerRan = TRUE]
         differs == ToLowerCase(r.email) # ToLowerCase(r.user.email)
         existing == FindByEmail(users, r.email)
     IN SetReq(p,
          IF r.email = NoString
            THEN Send(r, 400, "MISSING_REQUIRED_FIELDS", "Missing required fields: email")
          ELSE IF ~IsValidEmail(r.email)
            THEN Send(r, 400, "USER_INVALID_EMAIL", "Invalid email format")
          ELSE IF differs /\ existing # NoUser /\ existing.id # r.user.id
            THEN Send([r EXCEPT !.lookups = @ + 1], 409, "USER_ALREADY_EXISTS",
                      "User with email already exists")
          ELSE [r EXCEPT !.pc = "put_update", !.arg = NormalizeEmail(r.email),
                         !.lookups = @ + (IF differs THEN 1 ELSE 0)])
  /\ UNCHANGED <<timeVars, rlVars, dbVars, tokens, started, lastVerify>>

\* await user.update({ email: email.toLowerCase().trim() })
PutUpdate(p) ==
  /\ req[p].pc = "put_update"
  /\ LET r == req[p]
     IN IF r.user.id \notin DOMAIN users
          THEN SetReq(p, SendInternal(r)) /\ UNCHANGED users
        ELSE IF UniqueViolation(users, r.user.id, r.arg)
          THEN SetReq(p, SendUniqueViolation(r)) /\ UNCHANGED users
        ELSE /\ users' = [users EXCEPT ![r.user.id].email = r.arg]
             /\ SetReq(p, [Send(r, 200, "", "Profile updated successfully")
                             EXCEPT !.mutated = TRUE, !.user.email = r.arg])
  /\ UNCHANGED <<timeVars, rlVars, nextId, dbUp, tokens, started, lastVerify>>

(***************************************************************************)
(* DELETE /api/user/profile                                                *)
(***************************************************************************)
DeleteVerify(p) ==
  /\ req[p].pc = "delete_verify"
  /\ LET r == [req[p] EXCEPT !.handlerRan = TRUE]
     IN IF r.password = ""
          THEN /\ SetReq(p, Send(r, 400, "MISSING_REQUIRED_FIELDS",
                                 "Missing required fields: confirmPassword"))
               /\ UNCHANGED lastVerify
          ELSE /\ lastVerify' = Verification(r.user, r.password)
               /\ SetReq(p, IF VerifyPassword(r.user, r.password)
                              THEN [r EXCEPT !.pc = "delete_exec"]
                              ELSE Send(r, 401, "AUTH_TOKEN_INVALID", "Invalid password confirmation"))
  /\ UNCHANGED <<timeVars, rlVars, dbVars, tokens, started>>

DeleteExec(p) ==
  /\ req[p].pc = "delete_exec"
  /\ LET r == req[p]
     IN IF ~dbUp \/ r.user.id \notin DOMAIN users
          THEN SetReq(p, Send(r, 500, "INTERNAL_ERROR", "Failed to delete account"))
               /\ UNCHANGED users
          ELSE /\ users' = MapDelete(users, {r.user.id})
               /\ SetReq(p, [Send(r, 200, "", "Account deleted successfully")
                               EXCEPT !.mutated = TRUE])
  /\ UNCHANGED <<timeVars, rlVars, nextId, dbUp, tokens, started, lastVerify>>

(***************************************************************************)
(* POST /api/user/change-password                                          *)
(***************************************************************************)
\* password: currentPassword, password2: newPassword
ChangeVerify(p) ==
  /\ req[p].pc = "change_verify"
  /\ LET r == [req[p] EXCEPT !.handlerRan = TRUE]
     IN IF r.password = "" \/ r.password2 = ""
          THEN /\ SetReq(p, Send(r, 400, "MISSING_REQUIRED_FIELDS",
                                 "Missing required fields: currentPassword, newPassword"))
               /\ UNCHANGED lastVerify
          ELSE /\ lastVerify' = Verification(r.user, r.password)
               /\ SetReq(p,
                    IF ~VerifyPassword(r.user, r.password)
                      THEN Send(r, 401, "AUTH_TOKEN_INVALID", "Current password is incorrect")
                    ELSE IF ~IsValidPassword(r.password2)
                      THEN Send(r, 400, "USER_INVALID_PASSWORD",
                                "New password must be at least 6 characters long")
                    ELSE IF VerifyPassword(r.user, r.password2)
                      THEN Send(r, 400, "VALIDATION_ERROR",
                                "New password must be different from current password")
                    ELSE [r EXCEPT !.pc = "change_exec"])
  /\ UNCHANGED <<timeVars, rlVars, dbVars, tokens, started>>

\* user.updatePassword(newPassword): UPDATE users SET password_hash = $1 WHERE id = $2
ChangeExec(p) ==
  /\ req[p].pc = "change_exec"
  /\ LET r == req[p]
     IN IF r.user.id \notin DOMAIN users
          THEN SetReq(p, Send(r, 500, "INTERNAL_ERROR", "Failed to change password"))
               /\ UNCHANGED users
          ELSE /\ users' = [users EXCEPT ![r.user.id].hash = HashPassword(r.password2)]
               /\ SetReq(p, [Send(r, 200, "", "Password changed successfully")
                               EXCEPT !.mutated = TRUE, !.user.hash = HashPassword(r.password2)])
  /\ UNCHANGED <<timeVars, rlVars, nextId, dbUp, tokens, started, lastVerify>>

(***************************************************************************)
(* POST /api/auth/login                                                    *)
(***************************************************************************)
\* SecurityUtils.checkRateLimit(`login:${clientIP}`, 5, 15 * 60 * 1000)
LoginMaxAttempts == 5
LoginWindowMs == 900000

\* the lifetimes the handler asks for and the one it reports, in seconds:
\* tokenOptions, refreshTokenOptions and tokens.expiresIn of the response
DaySec == 24 * 3600
RequestedAuthTtl(rememberMe) == IF rememberMe THEN 30 * DaySec ELSE AuthTtl
RequestedRefreshTtl(rememberMe) == IF rememberMe THEN 90 * DaySec ELSE 7 * DaySec
ReportedExpiresIn(rememberMe) == IF rememberMe THEN 30 * DaySec ELSE DaySec

LoginBeginWith(p, email, password, ip, rememberMe) ==
  /\ Begin(p)
  /\ LET r == [IdleReq EXCEPT !.route = "login", !.email = email, !.password = password,
                              !.ip = ip, !.handlerRan = TRUE, !.remember = rememberMe]
         limit == CheckResult(rateLimitStore, LoginKey(ip), LoginMaxAttempts, LoginWindowMs, clock)
     IN IF email = NoString \/ password = ""
          THEN /\ SetReq(p, Send(r, 400, "MISSING_REQUIRED_FIELDS",
                                 "Missing required fields: email, password"))
               /\ UNCHANGED rlVars
        ELSE IF ~IsValidEmail(email)
          THEN /\ SetReq(p, Send(r, 400, "USER_INVALID_EMAIL", "Invalid email format"))
               /\ UNCHANGED rlVars
        ELSE /\ CheckRateLimit(LoginKey(ip), LoginMaxAttempts, LoginWindowMs)
             /\ SetReq(p, IF limit.allowed
                            THEN [r EXCEPT !.pc = "login_find", !.arg = NormalizeEmail(email),
                                           !.attempt = NextWinCalls(LoginKey(ip), LoginMaxAttempts)]
                            ELSE [SendRateLimited(r, limit.retryAfter)
                                    EXCEPT !.arg = NormalizeEmail(email),
                                           !.attempt = NextWinCalls(LoginKey(ip), LoginMaxAttempts)])
  /\ UNCHANGED <<timeVars, dbVars, tokens, lastVerify>>

\* a login without rememberMe in its body
LoginBegin(p, email, password, ip) == LoginBeginWith(p, email, password, ip, FALSE)

\* const user = await User.findByEmail(normalizedEmail)
LoginFindOff(p) ==
  /\ req[p].pc = "login_find"
  /\ LET r == [req[p] EXCEPT !.lookups = @ + 1]
     IN SetReq(p, IF FindByEmail(users, r.arg) = NoUser
                    THEN Send(r, 404, "USER_NOT_FOUND", "User not found")
                    ELSE [r EXCEPT !.pc = "login_verify", !.user = FindByEmail(users, r.arg)])
  /\ UNCHANGED <<timeVars, rlVars, dbVars, tokens, started, lastVerify>>
LoginFind(p) ==
  /\ req[p].pc = "login_find"
  /\ LET r == [req[p] EXCEPT !.lookups = @ + 1]
     IN SetReq(p, IF FindByEmail(users, r.arg) = NoUser
                    THEN Send(r, 401, "AUTH_TOKEN_INVALID", "Invalid email or password")
                    ELSE [r EXCEPT !.pc = "login_verify", !.user = FindByEmail(users, r.arg)])
  /\ UNCHANGED <<timeVars, rlVars, dbVars, tokens, started, lastVerify>>

\* const isPasswordValid = await user.verifyPassword(password), and what follows
LoginVerify(p) ==
  /\ req[p].pc = "login_verify"
  /\ lastVerify' = Verification(req[p].user, req[p].password)
  /\ LET r == req[p]
     IN IF VerifyPassword(r.user, r.password)
          THEN /\ ResetRateLimit(LoginKey(r.ip))
               /\ tokens' = tokens \cup {GenerateAuthToken(r.user, clock),
                                         GenerateRefreshToken(r.user, clock)}
               /\ SetReq(p, Send(r, 200, "", "Login successful"))
          ELSE /\ SetReq(p, Send(r, 401, "AUTH_TOKEN_INVALID", "Invalid email or password"))
               /\ UNCHANGED <<rlVars, tokens>>
  /\ UNCHANGED <<timeVars, dbVars, started>>

(***************************************************************************)
(* SpecReg: concurrent POST /api/auth/register requests                    *)
(***************************************************************************)
RegEmails == {EmailLower, EmailUpper, EmailNoDot, EmailPadded, NoString}
RegPasswords == {"secret1", "short"}
RegConfirms == {"", "secret9"}

RegBegin ==
  /\ started < MaxRequests
  /\ \E p \in Procs, e \in RegEmails, pw \in RegPasswords, c \in RegConfirms :
       RegisterBegin(p, e, pw, c)
RegFind == \E p \in Procs : CreateFind(p)
RegInsert == \E p \in Procs : CreateInsert(p)
RegFinish == \E p \in Procs : Finish(p)

InitRegSpec == InitTime /\ InitRL /\ InitDb /\ InitReq
NextReg == RegBegin \/ RegFind \/ RegInsert \/ RegFinish
SpecReg == InitRegSpec /\ [][NextReg]_vars

\* C3: of two registrations for the same normalized email that both passed the
\* existence check before either inserted, one is answered 201 and the other
\* 409 USER_ALREADY_EXISTS, none is answered 500, and the table holds at most
\* one record for that email.
C3_RaceResolvedByConstraint ==
  \A p \in Procs :
    (req[p].route = "register" /\ req[p].raced /\ req[p].pc = "done") =>
      /\ req[p].resp.status \in {201, 409}
      /\ req[p].resp.status = 409 => req[p].resp.code = "USER_ALREADY_EXISTS"
      /\ Cardinality(RowIdsByEmail(users, req[p].arg)) = 1
      /\ \A q \in Procs \ {p} :
           (req[q].route = "register" /\ req[q].raced /\ req[q].pc = "done"
              /\ req[q].arg = req[p].arg) =>
             {req[p].resp.status, req[q].resp.status} = {201, 409}

\* the case of C3: two raced registrations are both answered, the loser
\* through the unique-constraint violation
C3_Witness ==
  \E p, q \in Procs :
    /\ p # q
    /\ req[p].raced /\ req[q].raced
    /\ req[p].pc = "done" /\ req[q].pc = "done"
    /\ req[p].resp.status = 201 /\ req[q].resp.status = 409
    /\ req[p].email # req[q].email

(***************************************************************************)
(* SpecLogin: POST /api/auth/login against a seeded account                *)
(***************************************************************************)
\* the seeded account and the credentials the clients try
SeedPassword == "secret1"
WrongPassword == "wrong11"
InitDbSeeded ==
  /\ users = MapSet(EmptyMap, 1, [email |-> EmailLower, hash |-> HashPassword(SeedPassword)])
  /\ nextId = 2
  /\ dbUp = TRUE

LoginEmails == {EmailLower, EmailOther}
LoginPasswords == {SeedPassword, WrongPassword}
\* clock advances: a millisecond, and a millisecond short of the login window
LoginSteps == {1, LoginWindowMs - 1}

\* the logins of this specification are served one after the other
LoginProcs == {1}

LgBegin ==
  /\ started < MaxLogins
  /\ \E p \in LoginProcs, e \in LoginEmails, pw \in LoginPasswords, ip \in IPs :
       LoginBegin(p, e, pw, ip)
LgFind == \E p \in LoginProcs : LoginFind(p)
LgVerify == \E p \in LoginProcs : LoginVerify(p)
LgFinish == \E p \in LoginProcs : Finish(p)
LgTick ==
  /\ \E d \in LoginSteps : Tick(d)
  /\ UNCHANGED <<rlVars, dbVars, reqVars>>

InitLoginSpec == InitTime /\ InitRL /\ InitDbSeeded /\ InitReq
NextLogin == LgBegin \/ LgFind \/ LgVerify \/ LgFinish \/ LgTick
SpecLogin == InitLoginSpec /\ [][NextLogin]_vars

\* a login request that presents a wrong password for an account that exists
WrongPasswordLogin(r) ==
  /\ r.route = "login"
  /\ r.attempt >= 1
  /\ FindByEmail(users, r.arg) # NoUser
  /\ ~VerifyPassword(FindByEmail(users, r.arg), r.password)

\* C2: a wrong-password login for an existing account that is the k-th login
\* checked against its address since the address had no live record is answered
\* 401 while k <= 5, and 429 RATE_LIMIT_EXCEEDED carrying a Retry-After header
\* once k >= 6.
C2_SixthLoginRateLimited ==
  \A p \in Procs :
    (WrongPasswordLogin(req[p]) /\ req[p].pc = "done") =>
      /\ req[p].attempt <= LoginMaxAttempts =>
           req[p].resp.status = 401 /\ req[p].resp.code = "AUTH_TOKEN_INVALID"
      /\ req[p].attempt > LoginMaxAttempts =>
           /\ req[p].resp.status = 429
           /\ req[p].resp.code = "RATE_LIMIT_EXCEEDED"
           /\ req[p].resp.retryAfter # -1

(***************************************************************************)
(* SpecPwd: password changes, logins and account deletions of one account, *)
(* served concurrently                                                     *)
(***************************************************************************)
\* the state after the seeded account registered: its row and its token pair
SeedUser == [id |-> 1, email |-> EmailLower, hash |-> NoHash]
InitSession ==
  /\ tokens = {GenerateAuthToken(SeedUser, 0), GenerateRefreshToken(SeedUser, 0)}
  /\ req = [p \in Procs |-> IdleReq]
  /\ started = 0
  /\ lastVerify = <<>>

\* Authorization headers a client can send: none, or 'Bearer ' + an issued token
AuthTokens == {t \in tokens : t.type = "auth"}
OtherPassword == "secret2"
PwdPasswords == {SeedPassword, OtherPassword}

PwChangeBegin ==
  /\ started < MaxRequests
  /\ \E p \in Procs, t \in AuthTokens, cur \in PwdPasswords, new \in PwdPasswords :
       RouteBegin(p, "change_password", Header(TRUE, t), NoString, cur, new, 0)
PwDeleteBegin ==
  /\ started < MaxRequests
  /\ \E p \in Procs, t \in AuthTokens, pw \in PwdPasswords :
       RouteBegin(p, "profile_delete", Header(TRUE, t), NoString, pw, "", 0)
PwLoginBegin ==
  /\ started < MaxRequests
  /\ \E p \in Procs, pw \in PwdPasswords : LoginBegin(p, EmailLower, pw, "ip1")
PwGate == \E p \in Procs : AuthGate(p)
PwChangeVerify == \E p \in Procs : ChangeVerify(p)
PwChangeExec == \E p \in Procs : ChangeExec(p)
PwDeleteVerify == \E p \in Procs : DeleteVerify(p)
PwDeleteExec == \E p \in Procs : DeleteExec(p)
PwLoginFind == \E p \in Procs : LoginFind(p)
PwLoginVerify == \E p \in Procs : LoginVerify(p)
PwFinish == \E p \in Procs : Finish(p)

InitPwdSpec == InitTime /\ InitRL /\ InitDbSeeded /\ InitSession
NextPwd ==
  \/ PwChangeBegin \/ PwDeleteBegin \/ PwLoginBegin \/ PwGate
  \/ PwChangeVerify \/ PwChangeExec \/ PwDeleteVerify \/ PwDeleteExec
  \/ PwLoginFind \/ PwLoginVerify \/ PwFinish
SpecPwd == InitPwdSpec /\ [][NextPwd]_vars

\* C4: a password verification for a stored user accepts the candidate exactly
\* when it is the password the store holds for that user at that moment; after
\* a password change the old password is not accepted.
C4_VerifiesCurrentPassword ==
  (lastVerify # <<>> /\ lastVerify[1].stored # NoHash) =>
    lastVerify[1].accepted = BcryptCompare(lastVerify[1].candidate, lastVerify[1].stored)

(***************************************************************************)
(* SpecStore: the User model called directly, next to registrations and    *)
(* profile updates over HTTP                                               *)
(***************************************************************************)
StoreEmails == {EmailLower, EmailUpper}

StCreateBegin ==
  /\ started < MaxRequests
  /\ \E p \in Procs, e \in StoreEmails : CreateBegin(p, e, SeedPassword)
StRegisterBegin ==
  /\ started < MaxRequests
  /\ \E p \in Procs, e \in StoreEmails : RegisterBegin(p, e, SeedPassword, "")
StPutBegin ==
  /\ started < MaxRequests
  /\ \E p \in Procs, t \in AuthTokens, e \in StoreEmails \cup {EmailOther} :
       RouteBegin(p, "profile_put", Header(TRUE, t), e, "", "", 0)
StCreateFind == \E p \in Procs : CreateFind(p)
StCreateInsert == \E p \in Procs : CreateInsert(p)
StGate == \E p \in Procs : AuthGate(p)
StPutCheck == \E p \in Procs : PutCheck(p)
StPutUpdate == \E p \in Procs : PutUpdate(p)
StUpdate == \E id \in 1..MaxRequests, e \in StoreEmails : StoreUpdate(id, e)
StDelete == \E id \in 1..MaxRequests : StoreDelete(id)
StVerify == \E p \in Procs : CreatedVerify(p)
StFinish == \E p \in Procs : Finish(p)

InitStoreSpec == InitTime /\ InitRL /\ InitDb /\ InitReq
NextStore ==
  \/ StCreateBegin \/ StRegisterBegin \/ StPutBegin \/ StCreateFind \/ StCreateInsert
  \/ StGate \/ StPutCheck \/ StPutUpdate \/ StUpdate \/ StDelete \/ StVerify \/ StFinish
SpecStore == InitStoreSpec /\ [][NextStore]_vars

\* C10: no two stored users have emails that are equal after trimming and
\* lower-casing.
C10_NormalizedEmailsUnique ==
  \A i, j \in DOMAIN users :
    i # j => NormalizeEmail(users[i].email) # NormalizeEmail(users[j].email)

(***************************************************************************)
(* SpecGate: the gates and token consumers, with users deleted and          *)
(* registered, tokens ageing and the store failing                          *)
(***************************************************************************)
\* the gates of each route, in order
GatesOf(route) ==
  CASE route = "owned" -> <<"authenticateToken", "requireOwnership">>
    [] route \in {"protected", "profile_delete", "profile_put", "change_password"} ->
         <<"authenticateToken">>
    [] route = "refresh_gate" -> <<"validateRefreshToken">>
    [] route = "refresh_owned" -> <<"validateRefreshToken", "requireOwnership">>
    [] route = "optional" -> <<"optionalAuth">>
    [] route = "optional_owned" -> <<"optionalAuth", "requireOwnership">>
    [] route = "bare_owned" -> <<"requireOwnership">>
    [] route = "extract" -> <<"extractUserFromToken">>
    [] OTHER -> <<>>

\* the store starts or stops failing its queries
DbFail ==
  /\ dbUp
  /\ dbUp' = FALSE
  /\ UNCHANGED <<timeVars, rlVars, users, nextId, reqVars>>
DbRecover ==
  /\ ~dbUp
  /\ dbUp' = TRUE
  /\ UNCHANGED <<timeVars, rlVars, users, nextId, reqVars>>

\* the requests of this specification are served one after the other
GateProcs == {1}
GateRoutes == {"protected", "owned", "refresh_gate", "extract", "me", "refresh"}
\* tokens not issued by the server: signed with another secret
ForgedTokens ==
  {Token("jwt", "bad", 1, EmailLower, "auth", 0, AuthTtl),
   Token("jwt", "bad", 1, EmailLower, "refresh", 0, RefreshTtl)}
GateHeaders ==
  {NoHeader, Header(TRUE, EmptyToken), Header(TRUE, GarbageToken)}
    \cup {Header(TRUE, t) : t \in tokens \cup ForgedTokens}
\* clock advances: the lifetime of an access token, of a refresh token
GateSteps == {AuthTtl * MsPerSec, RefreshTtl * MsPerSec}
\* the clock is advanced until every token issued in the first day has expired
GateHorizon == (RefreshTtl + AuthTtl) * MsPerSec

GtBegin ==
  /\ started < MaxGateRequests
  /\ \E p \in GateProcs, route \in GateRoutes, hdr \in GateHeaders, param \in {1, 2} :
       RouteBegin(p, route, hdr, NoString, "", "", IF route = "owned" THEN param ELSE 0)
GtDeleteBegin ==
  /\ started < MaxGateRequests
  /\ \E p \in GateProcs, t \in tokens, pw \in {SeedPassword, WrongPassword} :
       RouteBegin(p, "profile_delete", Header(TRUE, t), NoString, pw, "", 0)
GtRegisterBegin ==
  /\ started < MaxGateRequests
  /\ dbUp
  /\ \E p \in GateProcs, e \in {EmailLower, EmailOther} : RegisterBegin(p, e, SeedPassword, "")
GtCreateFind == dbUp /\ \E p \in GateProcs : CreateFind(p)
GtCreateInsert == dbUp /\ \E p \in GateProcs : CreateInsert(p)
GtAuthGate == \E p \in GateProcs : AuthGate(p)
GtOwnGate == \E p \in GateProcs : OwnGate(p)
GtRefreshGate == \E p \in GateProcs : RefreshGate(p)
GtExtractGate == \E p \in GateProcs : ExtractGate(p)
GtHandler == \E p \in GateProcs : Handler(p)
GtMe == \E p \in GateProcs : MeHandler(p)
GtRefresh == \E p \in GateProcs : RefreshHandler(p)
GtDeleteVerify == \E p \in GateProcs : DeleteVerify(p)
GtDeleteExec == \E p \in GateProcs : DeleteExec(p)
GtUserDelete == dbUp /\ \E id \in 1..(MaxGateRequests + 1) : StoreDelete(id)
GtFinish == \E p \in GateProcs : Finish(p)
GtTick ==
  /\ clock < GateHorizon
  /\ \E d \in GateSteps : Tick(d)
  /\ UNCHANGED <<rlVars, dbVars, reqVars>>

InitGateSpec == InitTime /\ InitRL /\ InitDbSeeded /\ InitSession
NextGate ==
  \/ GtBegin \/ GtDeleteBegin \/ GtRegisterBegin \/ GtCreateFind \/ GtCreateInsert
  \/ GtAuthGate \/ GtOwnGate \/ GtRefreshGate \/ GtExtractGate \/ GtHandler \/ GtMe
  \/ GtRefresh \/ GtDeleteVerify \/ GtDeleteExec \/ GtUserDelete \/ GtFinish \/ GtTick
  \/ DbFail \/ DbRecover
SpecGate == InitGateSpec /\ [][NextGate]_vars

\* the routes behind the mandatory gate
AccessGated(r) == r.route \in {"protected", "owned", "profile_delete"}
\* the request went through the named gate
PassedGate(r, name) == \E i \in 1..Len(r.passed) : r.passed[i] = name
\* the operation took the token for good
Accepted(r) == r.passed # <<>> \/ (r.handlerRan /\ r.resp.status = 200)

\* C5: a refresh token presented to the mandatory gate is rejected with 401,
\* whatever its signature and age, and with AUTH_TOKEN_INVALID 'Invalid token
\* type' when it verifies; an auth token presented to the refresh-token gate
\* likewise; next() is not called and no identity is attached.
C5_KindMismatchRejected ==
  \A p \in Procs :
    LET r == req[p]
        t == r.hdr.tok
    IN /\ (AccessGated(r) /\ r.seen /\ r.hdr.present /\ t.type = "refresh") =>
            /\ r.rejectedBy = "authenticateToken" /\ r.resp.status = 401
            /\ r.passed = <<>> /\ r.user = NoUser /\ ~r.handlerRan
            /\ VerifyToken(t, r.at) = "ok" =>
                 r.resp.code = "AUTH_TOKEN_INVALID" /\ r.resp.msg = "Invalid token type"
       /\ (r.route = "refresh_gate" /\ r.seen /\ t.type = "auth") =>
            /\ r.rejectedBy = "validateRefreshToken" /\ r.resp.status = 401
            /\ r.passed = <<>> /\ r.user = NoUser /\ ~r.handlerRan
            /\ VerifyToken(t, r.at) = "ok" =>
                 r.resp.code = "AUTH_TOKEN_INVALID" /\ r.resp.msg = "Invalid token type"

\* the case of C5: an issued, unexpired refresh token of an existing user was
\* presented to the mandatory gate
C5_Witness ==
  \E p \in Procs :
    /\ AccessGated(req[p]) /\ req[p].seen /\ req[p].hdr.present
    /\ req[p].hdr.tok \in tokens /\ req[p].hdr.tok.type = "refresh"
    /\ VerifyToken(req[p].hdr.tok, req[p].at) = "ok" /\ ~req[p].gone
    /\ req[p].resp.msg = "Invalid token type"

\* C6: an operation that consumes an access token (mandatory gate, GET
\* /api/auth/me, extractUserFromToken) accepts only tokens of kind auth, and an
\* operation that consumes a refresh token only tokens of kind refresh.
C6_KindMatchesConsumer ==
  \A p \in Procs :
    LET r == req[p]
    IN /\ ((AccessGated(r) \/ r.route \in {"me", "extract"}) /\ Accepted(r)) =>
            r.hdr.tok.type = "auth"
       /\ (r.route \in {"refresh_gate", "refresh"} /\ Accepted(r)) =>
            r.hdr.tok.type = "refresh"

\* the token checks of the mandatory gate, in its order, at the time it ran
TokenChecksPass(r) ==
  /\ r.hdr.present /\ r.hdr.tok.fmt = "jwt" /\ r.hdr.tok.sig = "ok"
  /\ NowSec(r.at) < r.hdr.tok.exp /\ r.hdr.tok.type = "auth"
FirstFailingCheck(r) ==
  IF ~r.hdr.present \/ r.hdr.tok.fmt = "empty" THEN "AUTH_TOKEN_MISSING"
  ELSE IF r.hdr.tok.fmt # "jwt" \/ r.hdr.tok.sig # "ok" THEN "AUTH_TOKEN_INVALID"
  ELSE IF NowSec(r.at) >= r.hdr.tok.exp THEN "AUTH_TOKEN_EXPIRED"
  ELSE IF r.hdr.tok.type # "auth" THEN "AUTH_TOKEN_INVALID"
  ELSE "USER_NOT_FOUND"

\* C7 (as stated): the mandatory gate does exactly one of next() and one
\* rejection; next() iff every token check passes and the user exists; the
\* rejection is that of the first failing check, always with status 401; the
\* store is consulted only after the token checks passed.
C7_GateDecision ==
  \A p \in Procs :
    LET r == req[p]
    IN (AccessGated(r) /\ r.seen) =>
         /\ PassedGate(r, "authenticateToken") # (r.rejectedBy = "authenticateToken")
         /\ PassedGate(r, "authenticateToken") = (TokenChecksPass(r) /\ ~r.gone)
         /\ r.rejectedBy = "authenticateToken" =>
              /\ r.resp.n = 1
              /\ r.resp.status = 401
              /\ r.resp.code = FirstFailingCheck(r)
         /\ ~TokenChecksPass(r) => r.lookups = 0

\* C7 (amended): as above, except that a store lookup that fails is answered
\* 500 INTERNAL_ERROR, without next().
C7_GateDecisionOrStoreFailure ==
  \A p \in Procs :
    LET r == req[p]
    IN (AccessGated(r) /\ r.seen) =>
         /\ PassedGate(r, "authenticateToken") # (r.rejectedBy = "authenticateToken")
         /\ PassedGate(r, "authenticateToken") = (TokenChecksPass(r) /\ ~r.gone /\ r.dbOk)
         /\ r.rejectedBy = "authenticateToken" =>
              /\ r.resp.n = 1
              /\ IF TokenChecksPass(r) /\ ~r.dbOk
                   THEN r.resp.status = 500 /\ r.resp.code = "INTERNAL_ERROR"
                   ELSE r.resp.status = 401 /\ r.resp.code = FirstFailingCheck(r)
         /\ ~TokenChecksPass(r) => r.lookups = 0

\* the case of C7: the token checks passed and the store lookup failed
C7_Witness ==
  \E p \in Procs :
    /\ AccessGated(req[p]) /\ req[p].seen /\ TokenChecksPass(req[p]) /\ ~req[p].dbOk
    /\ req[p].rejectedBy = "authenticateToken"
    /\ req[p].lookups = 1

\* C8: a gate or handler runs only after every earlier gate of its route called
\* next(); once a gate has rejected, nothing more runs for the request, nothing
\* is mutated and no second response is sent.
C8_StrictSequence ==
  \A p \in Procs :
    LET r == req[p]
        gates == GatesOf(r.route)
    IN /\ Len(r.passed) <= Len(gates) /\ r.passed = SubSeq(gates, 1, Len(r.passed))
       /\ (r.handlerRan /\ gates # <<>>) => r.passed = gates
       /\ r.pc = "own_gate" => r.passed = <<"authenticateToken">>
       /\ r.mutated => r.handlerRan
       /\ r.resp.n <= 1
       /\ r.rejectedBy # "" =>
            /\ r.pc = "done" /\ r.resp.n = 1
            /\ ~r.handlerRan /\ ~r.mutated
            /\ ~PassedGate(r, r.rejectedBy)

\* the case of C8: the second gate of a route rejected after the first passed
C8_Witness ==
  \E p \in Procs :
    /\ req[p].route = "owned" /\ req[p].rejectedBy = "requireOwnership"
    /\ req[p].passed = <<"authenticateToken">>
    /\ req[p].resp.status = 403

\* an issued token of the gate's own kind, presented after its user was deleted
DeletedUsersToken(r) ==
  /\ r.seen /\ r.gone /\ r.hdr.present /\ r.hdr.tok \in tokens
  /\ \/ AccessGated(r) /\ r.hdr.tok.type = "auth"
     \/ r.route = "refresh_gate" /\ r.hdr.tok.type = "refresh"

\* C9 (as stated): a token of a deleted user is rejected with 401
\* USER_NOT_FOUND by the mandatory gate and by the refresh-token gate at every
\* later time, and is never resolved to a different user.
C9_DeletedUserNotFound ==
  \A p \in Procs :
    LET r == req[p]
    IN /\ DeletedUsersToken(r) =>
            /\ r.rejectedBy # "" /\ r.passed = <<>> /\ r.user = NoUser
            /\ r.resp.status = 401 /\ r.resp.code = "USER_NOT_FOUND"
       /\ ((AccessGated(r) \/ r.route = "refresh_gate") /\ r.passed # <<>>) =>
            r.user.id = r.hdr.tok.userId

\* C9 (amended): such a token is rejected at every later time and never resolved
\* to a different user; the rejection is 401 USER_NOT_FOUND while the token is
\* unexpired and the store answers, 401 AUTH_TOKEN_EXPIRED (mandatory gate) or
\* 401 AUTH_TOKEN_INVALID (refresh-token gate) once it has expired, and 500
\* INTERNAL_ERROR when the store lookup fails.
C9_DeletedUserRejected ==
  \A p \in Procs :
    LET r == req[p]
        expired == NowSec(r.at) >= r.hdr.tok.exp
    IN /\ DeletedUsersToken(r) =>
            /\ r.rejectedBy # "" /\ r.passed = <<>> /\ r.user = NoUser /\ ~r.handlerRan
            /\ IF expired
                 THEN /\ r.resp.status = 401
                      /\ r.resp.code = IF AccessGated(r) THEN "AUTH_TOKEN_EXPIRED"
                                       ELSE "AUTH_TOKEN_INVALID"
               ELSE IF ~r.dbOk
                 THEN r.resp.status = 500 /\ r.resp.code = "INTERNAL_ERROR"
               ELSE r.resp.status = 401 /\ r.resp.code = "USER_NOT_FOUND"
       /\ ((AccessGated(r) \/ r.route = "refresh_gate") /\ r.passed # <<>>) =>
            r.user.id = r.hdr.tok.userId

\* the case of C9: a user registered after the deletion, and the deleted
\* user's unexpired token was presented
C9_Witness ==
  \E p \in Procs :
    /\ DeletedUsersToken(req[p]) /\ NowSec(req[p].at) < req[p].hdr.tok.exp /\ req[p].dbOk
    /\ req[p].resp.code = "USER_NOT_FOUND"
    /\ users # EmptyMap

(***************************************************************************)
(* SpecAcct: the life of accounts over HTTP: registrations, profile        *)
(* updates and account deletions, served concurrently                      *)
(***************************************************************************)
AcctEmails == {EmailLower, EmailUpper, EmailOther}

AcRegisterBegin ==
  /\ started < MaxRequests
  /\ \E p \in Procs, e \in AcctEmails, pw \in RegPasswords : RegisterBegin(p, e, pw, "")
AcPutBegin ==
  /\ started < MaxRequests
  /\ \E p \in Procs, t \in AuthTokens, e \in AcctEmails :
       RouteBegin(p, "profile_put", Header(TRUE, t), e, "", "", 0)
AcDeleteBegin ==
  /\ started < MaxRequests
  /\ \E p \in Procs, t \in AuthTokens :
       RouteBegin(p, "profile_delete", Header(TRUE, t), NoString, SeedPassword, "", 0)
AcCreateFind == \E p \in Procs : CreateFind(p)
AcCreateInsert == \E p \in Procs : CreateInsert(p)
AcGate == \E p \in Procs : AuthGate(p)
AcPutCheck == \E p \in Procs : PutCheck(p)
AcPutUpdate == \E p \in Procs : PutUpdate(p)
AcDeleteVerify == \E p \in Procs : DeleteVerify(p)
AcDeleteExec == \E p \in Procs : DeleteExec(p)
AcFinish == \E p \in Procs : Finish(p)

InitAcctSpec == InitTime /\ InitRL /\ InitDb /\ InitReq
NextAcct ==
  \/ AcRegisterBegin \/ AcPutBegin \/ AcDeleteBegin \/ AcCreateFind \/ AcCreateInsert
  \/ AcGate \/ AcPutCheck \/ AcPutUpdate \/ AcDeleteVerify \/ AcDeleteExec \/ AcFinish
SpecAcct == InitAcctSpec /\ [][NextAcct]_vars

\* the stored records whose email is e after trimming and lower-casing
RowsNormalizedTo(table, e) == {i \in DOMAIN table : Trim(ToLowerCase(table[i].email)) = e}

\* C11: a register request with a well-formed email and a password of length
\* >= 6 is answered 201 and creates the one record of its normalized email when
\* no account holds that email, and is answered USER_ALREADY_EXISTS and creates
\* no record while an account holds it, whatever the letter case it was sent in.
C11_RegisterOncePerEmail ==
  [][\A p \in Procs :
       (req[p].route = "register" /\ req[p].pc # "done" /\ req'[p].pc = "done"
          /\ CreateInputError(req[p].email, req[p].password) = "ok") =>
         IF RowsNormalizedTo(users, Trim(ToLowerCase(req[p].email))) # {}
           THEN /\ req'[p].resp.status = 409
                /\ req'[p].resp.code = "USER_ALREADY_EXISTS"
                /\ users' = users
           ELSE /\ req'[p].resp.status = 201
                /\ Cardinality(RowsNormalizedTo(users', Trim(ToLowerCase(req[p].email)))) = 1
                /\ DOMAIN users' = DOMAIN users \cup {nextId}]_vars

\* the case of C11: after an account was registered, a registration of the same
\* email in another letter case, started later, was refused
C11_Witness ==
  \E p \in Procs :
    /\ req[p].route = "register" /\ req[p].pc = "done" /\ ~req[p].raced
    /\ req[p].email = EmailUpper
    /\ req[p].resp.code = "USER_ALREADY_EXISTS"
    /\ RowIdsByEmail(users, EmailLower) # {}

(***************************************************************************)
(* JWTUtils called directly                                                *)
(***************************************************************************)
\* a call of a JWTUtils function on a token, and how it ends
Call(fn, tok, now) == [IdleReq EXCEPT !.route = fn, !.hdr = Header(TRUE, tok), !.at = now]
Returned(r) == Send(r, 0, "returned", "ok")
Thrown(r, msg) == Send(r, 0, "thrown", msg)

\* JWTUtils.generateToken({userId, email, type}, {expiresIn: ttl})
GenerateTokenCall(p, userId, email, type, ttl) ==
  /\ Begin(p)
  /\ tokens' = tokens \cup {GenerateToken(userId, email, type, ttl, clock)}
  /\ SetReq(p, [Returned(Call("generateToken", EmptyToken, clock))
                  EXCEPT !.user = [id |-> userId, email |-> email, hash |-> NoHash],
                         !.arg = type, !.param = ttl,
                         !.ret.tok = GenerateToken(userId, email, type, ttl, clock)])
  /\ UNCHANGED <<timeVars, rlVars, dbVars, lastVerify>>

\* JWTUtils.verifyToken(tok): returns the decoded payload or throws
VerifyTokenCall(p, tok) ==
  /\ Begin(p)
  /\ SetReq(p, IF VerifyToken(tok, clock) = "ok"
                 THEN [Returned(Call("verifyToken", tok, clock))
                         EXCEPT !.user = [id |-> DecodeToken(tok)[1].userId,
                                          email |-> DecodeToken(tok)[1].email, hash |-> NoHash],
                                !.ret.kind = DecodeToken(tok)[1].type]
                 ELSE Thrown(Call("verifyToken", tok, clock), VerifyToken(tok, clock)))
  /\ UNCHANGED <<timeVars, rlVars, dbVars, tokens, lastVerify>>

\* JWTUtils.isTokenExpired(tok)
IsTokenExpiredCall(p, tok) ==
  /\ Begin(p)
  /\ SetReq(p, [Returned(Call("isTokenExpired", tok, clock))
                  EXCEPT !.ret.flag = IsTokenExpired(tok, clock)])
  /\ UNCHANGED <<timeVars, rlVars, dbVars, tokens, lastVerify>>

\* JWTUtils.getTokenRemainingTime(tok)
GetTokenRemainingTimeCall(p, tok) ==
  /\ Begin(p)
  /\ SetReq(p, [Returned(Call("getTokenRemainingTime", tok, clock))
                  EXCEPT !.ret.num = GetTokenRemainingTime(tok, clock)])
  /\ UNCHANGED <<timeVars, rlVars, dbVars, tokens, lastVerify>>

\* JWTUtils.refreshAccessToken(tok): returns a new access token or throws
RefreshAccessTokenCall(p, tok) ==
  /\ Begin(p)
  /\ LET msg == RefreshAccessToken(tok, clock)
         claims == [id |-> tok.userId, email |-> tok.email, hash |-> NoHash]
     IN IF msg = "ok"
          THEN /\ tokens' = tokens \cup {GenerateAuthToken(claims, clock)}
               /\ SetReq(p, [Returned(Call("refreshAccessToken", tok, clock))
                               EXCEPT !.ret.tok = GenerateAuthToken(claims, clock)])
          ELSE /\ SetReq(p, Thrown(Call("refreshAccessToken", tok, clock), msg))
               /\ UNCHANGED tokens
  /\ UNCHANGED <<timeVars, rlVars, dbVars, lastVerify>>

(***************************************************************************)
(* SpecCodec: tokens issued, inspected and refreshed as time passes        *)
(***************************************************************************)
\* the claims base of the tokens issued: userId and email
CodecUsers == {<<1, EmailLower>>}
CodecKinds == {"auth", "refresh"}
\* expiresIn arguments (seconds)
CodecTtls == {1, 2}
\* clock advances (milliseconds): half a second, a second
CodecSteps == {MsPerSec \div 2, MsPerSec}
\* a token signed with another secret, and the tokens a caller can pass
CodecForged == Token("jwt", "bad", 1, EmailLower, "refresh", 0, MaxTicks + 1)
CodecTokens == tokens \cup {CodecForged, GarbageToken, EmptyToken}

\* caller 1 issues tokens, caller 2 inspects and refreshes them
CdGenerate ==
  \E u \in CodecUsers, kind \in CodecKinds, ttl \in CodecTtls :
    started < MaxCodecCalls /\ GenerateTokenCall(1, u[1], u[2], kind, ttl)
CdVerify ==
  \E tok \in CodecTokens : started < MaxCodecCalls /\ VerifyTokenCall(2, tok)
CdIsExpired ==
  \E tok \in CodecTokens : started < MaxCodecCalls /\ IsTokenExpiredCall(2, tok)
CdRemaining ==
  \E tok \in CodecTokens :
    started < MaxCodecCalls /\ GetTokenRemainingTimeCall(2, tok)
CdRefresh ==
  \E tok \in CodecTokens : started < MaxCodecCalls /\ RefreshAccessTokenCall(2, tok)
CdFinish == \E p \in Procs : Finish(p)
CdTick ==
  /\ \E d \in CodecSteps : Tick(d)
  /\ UNCHANGED <<rlVars, dbVars, reqVars>>

InitCodecSpec == InitTime /\ InitRL /\ InitDb /\ InitReq
NextCodec ==
  \/ CdGenerate \/ CdVerify \/ CdIsExpired \/ CdRemaining \/ CdRefresh \/ CdFinish \/ CdTick
SpecCodec == InitCodecSpec /\ [][NextCodec]_vars

\* a finished call of fn
CallOf(r, fn) == r.route = fn /\ r.pc = "done"

\* C12: a token issued by generateToken for a userId, email, kind and ttl
\* verifies to the same userId, email and kind at every time before the ttl
\* has elapsed since it was issued, and fails with the expired failure, and
\* no other, at every time from then on (time in whole Unix seconds).
C12_IssueVerifyRoundTrip ==
  \A p, q \in Procs :
    (CallOf(req[p], "generateToken") /\ CallOf(req[q], "verifyToken")
       /\ req[q].hdr.tok = req[p].ret.tok) =>
      IF NowSec(req[q].at) - NowSec(req[p].at) < req[p].param
        THEN /\ req[q].resp.code = "returned"
             /\ req[q].user.id = req[p].user.id
             /\ req[q].user.email = req[p].user.email
             /\ req[q].ret.kind = req[p].arg
        ELSE /\ req[q].resp.code = "thrown"
             /\ req[q].resp.msg = "Token has expired"

\* the case of C12: a token issued for two seconds has been verified a second
\* later and its claims returned
C12_Witness ==
  \E p, q \in Procs :
    /\ CallOf(req[p], "generateToken") /\ CallOf(req[q], "verifyToken")
    /\ req[q].hdr.tok = req[p].ret.tok
    /\ NowSec(req[q].at) - NowSec(req[p].at) = req[p].param - 1
    /\ NowSec(req[q].at) > NowSec(req[p].at)
    /\ req[q].resp.code = "returned"
    /\ req[q].ret.kind = req[p].arg

\* C13: verifyToken, isTokenExpired and getTokenRemainingTime all treat a
\* token the server issued as expired exactly when now >= exp in whole Unix
\* seconds, the instant now == exp included.
C13_ExpiryDecisionsAgree ==
  \A p \in Procs :
    (req[p].pc = "done" /\ req[p].hdr.tok \in tokens) =>
      LET expired == NowSec(req[p].at) >= req[p].hdr.tok.exp
      IN /\ req[p].route = "verifyToken" => ((req[p].resp.msg = "Token has expired") = expired)
         /\ req[p].route = "isTokenExpired" => (req[p].ret.flag = expired)
         /\ req[p].route = "getTokenRemainingTime" => ((req[p].ret.num = 0) = expired)

\* C14: getTokenRemainingTime returns a non-negative integer, and 0 for every
\* token that verifyToken rejects at that instant: expired, malformed, or not
\* signed with the server secret.
C14_RemainingZeroWhenRejected ==
  \A p \in Procs :
    CallOf(req[p], "getTokenRemainingTime") =>
      /\ req[p].ret.num \in Nat
      /\ VerifyToken(req[p].hdr.tok, req[p].at) # "ok" => req[p].ret.num = 0

\* C15: refreshAccessToken(t) succeeds only when t verifies and has kind
\* refresh, and then returns a token that verifies with kind auth and the
\* userId and email of t; for an auth-kind, expired or malformed t it throws
\* and issues nothing.
C15_RefreshOnlyFromRefreshKind ==
  [][\A p \in Procs :
       (req[p].pc = "idle" /\ CallOf(req'[p], "refreshAccessToken")) =>
         LET t == req'[p].hdr.tok
             new == req'[p].ret.tok
             ok == req'[p].resp.code = "returned"
         IN /\ ok => /\ VerifyToken(t, clock) = "ok" /\ t.type = "refresh"
                     /\ VerifyToken(new, clock) = "ok" /\ new.type = "auth"
                     /\ new.userId = t.userId /\ new.email = t.email
            /\ (t.type = "auth" \/ VerifyToken(t, clock) # "ok") =>
                 /\ req'[p].resp.code = "thrown"
                 /\ new = EmptyToken
                 /\ tokens' = tokens]_vars

\* the case of C15: a refresh token issued a second earlier has been
\* exchanged for an access token
C15_Witness ==
  \E p \in Procs :
    /\ CallOf(req[p], "refreshAccessToken")
    /\ req[p].resp.code = "returned"
    /\ req[p].hdr.tok \in tokens
    /\ req[p].hdr.tok.iat < NowSec(req[p].at)
    /\ req[p].ret.tok \in tokens
    /\ req[p].ret.tok.type = "auth"

(***************************************************************************)
(* SpecSess: a registration, then /me and /refresh with the issued tokens  *)
(***************************************************************************)
SessProcs == {1}
\* clock advances: within a second, a second, the lifetime of an access token
SessSteps == {MsPerSec \div 2, MsPerSec, AuthTtl * MsPerSec}

SsRegisterBegin ==
  /\ started < MaxRequests
  /\ \E p \in SessProcs, e \in {EmailUpper, EmailOther} : RegisterBegin(p, e, SeedPassword, "")
SsBegin ==
  /\ started < MaxRequests
  /\ \E p \in SessProcs, route \in {"me", "refresh"}, t \in tokens :
       RouteBegin(p, route, Header(TRUE, t), NoString, "", "", 0)
SsCreateFind == \E p \in SessProcs : CreateFind(p)
SsCreateInsert == \E p \in SessProcs : CreateInsert(p)
SsMe == \E p \in SessProcs : MeHandler(p)
SsRefresh == \E p \in SessProcs : RefreshHandler(p)
SsFinish == \E p \in SessProcs : Finish(p)
SsTick ==
  /\ \E d \in SessSteps : Tick(d)
  /\ UNCHANGED <<rlVars, dbVars, reqVars>>

InitSessSpec == InitTime /\ InitRL /\ InitDb /\ InitReq
NextSess ==
  \/ SsRegisterBegin \/ SsBegin \/ SsCreateFind \/ SsCreateInsert
  \/ SsMe \/ SsRefresh \/ SsFinish \/ SsTick
SpecSess == InitSessSpec /\ [][NextSess]_vars

\* the access token generateTokenPair signed together with a refresh token
PairedAccessToken(rt) ==
  Token("jwt", "ok", rt.userId, rt.email, "auth", rt.iat, rt.iat + AuthTtl)

\* C16: with the tokens a registration issued, GET /me with the access token
\* is answered 200 with the registered email; POST /refresh with the refresh
\* token, at whatever time before it expires, is answered 200 with an access
\* token that differs from the original access token and is accepted on /me.
C16_RefreshedTokenDiffers ==
  \A p \in Procs :
    (req[p].pc = "done" /\ req[p].hdr.tok \in tokens
       /\ NowSec(req[p].at) < req[p].hdr.tok.exp) =>
      LET r == req[p]
          t == r.hdr.tok
      IN /\ (r.route = "me" /\ t.type = "auth") =>
              /\ r.resp.status = 200
              /\ t.userId \in DOMAIN users
              /\ r.user.email = users[t.userId].email
         /\ (r.route = "refresh" /\ t.type = "refresh") =>
              /\ r.resp.status = 200
              /\ r.ret.tok # PairedAccessToken(t)
              /\ r.ret.tok.type = "auth"
              /\ GetMe(Header(TRUE, r.ret.tok), users, dbUp, r.at).next

(***************************************************************************)
(* SpecRL: the rate limiter driven directly                                *)
(***************************************************************************)
RLCheck ==
  /\ \E k \in Keys, n \in AttemptArgs, w \in Windows :
       winCalls[k] <= MaxN + 1 /\ CheckRateLimit(k, n, w)
  /\ UNCHANGED <<timeVars, dbVars, reqVars>>

RLReset ==
  /\ \E k \in Keys : ResetRateLimit(k)
  /\ UNCHANGED <<timeVars, dbVars, reqVars>>

RLCleanup ==
  /\ CleanupRateLimit
  /\ UNCHANGED <<timeVars, dbVars, reqVars>>

RLTick ==
  /\ \E d \in Steps : Tick(d)
  /\ UNCHANGED <<rlVars, dbVars, reqVars>>

InitRLSpec == InitTime /\ InitRL /\ InitDb /\ InitReq
NextRL == RLCheck \/ RLReset \/ RLCleanup \/ RLTick
SpecRL == InitRLSpec /\ [][NextRL]_vars

\* C1: starting from a key with no live record, the c-th of consecutive
\* checkRateLimit(key, N, w) calls made within the window (N >= 1) returns
\* allowed=true with remaining N-c while c <= N, and allowed=false once c = N+1
\* (and for every later call of the run).
C1_FirstNAllowedThenDenied ==
  rlRet # <<>> =>
    LET k == rlRet[1].key
        c == winCalls[k]
        n == winN[k]
    IN (c >= 1 /\ n >= 1) =>
         /\ rlRet[1].res.allowed = (c <= n)
         /\ (c <= n => rlRet[1].res.remaining = n - c)
         /\ (c > n => rlRet[1].res.remaining = 0)

\* the case of C1: the (N+1)th call of a run with N = MaxN has been denied
C1_Witness ==
  /\ rlRet # <<>>
  /\ winN[rlRet[1].key] = MaxN
  /\ winCalls[rlRet[1].key] = MaxN + 1
  /\ rlRet[1].res.allowed = FALSE

\* C17: every checkRateLimit call that returns allowed=false returns a
\* retryAfter that is a whole number of seconds strictly greater than 0.
C17_DeniedRetryAfterPositive ==
  (rlRet # <<>> /\ ~rlRet[1].res.allowed) =>
    (rlRet[1].res.retryAfter \in Nat /\ rlRet[1].res.retryAfter > 0)


(***************************************************************************)
(* SpecWin: keys checked, reset and cleaned up as their windows pass,       *)
(* side by side with a store that is never cleaned up                      *)
(***************************************************************************)
\* the first key is checked with every maxAttempts, the second with one
WinArgs(k) == IF k = LoginKey("ip1") THEN AttemptArgs ELSE {1}

WnCheck ==
  /\ \E k \in Keys, w \in Windows : \E n \in WinArgs(k) :
       winCalls[k] <= n + 1 /\ CheckRateLimitBoth(k, n, w)
  /\ UNCHANGED <<timeVars, dbVars, reqVars>>
WnReset ==
  /\ \E k \in Keys : ResetRateLimitBoth(k)
  /\ UNCHANGED <<timeVars, dbVars, reqVars>>
WnCleanup ==
  /\ CleanupRateLimit
  /\ UNCHANGED <<timeVars, dbVars, reqVars>>
WnTick ==
  /\ \E d \in Steps : Tick(d)
  /\ UNCHANGED <<rlVars, dbVars, reqVars>>

InitWinSpec == InitTime /\ InitRL /\ InitDb /\ InitReq
NextWin == WnCheck \/ WnReset \/ WnCleanup \/ WnTick
SpecWin == InitWinSpec /\ [][NextWin]_vars

C19_AttemptsBounded ==
  /\ [](\A k \in DOMAIN rateLimitStore :
          winCalls[k] >= 1 => rateLimitStore[k].attempts <= winN[k])
  /\ [][\A k \in Keys, n \in AttemptArgs, w \in Windows :
          (CheckRateLimitOn(k, n, w, winCalls[k] = -1) /\ Live(rateLimitStore, k, clock)
             /\ rateLimitStore[k].attempts = n) =>
            ~rlRet'[1].res.allowed]_vars

\* the case of C19: a key whose count stands at its maxAttempts has been
\* checked again later in the window and denied
C19_Witness ==
  /\ rlRet # <<>>
  /\ rlRet[1].key \in DOMAIN rateLimitStore
  /\ rlRet[1].maxAttempts = MaxN
  /\ rateLimitStore[rlRet[1].key].attempts = MaxN
  /\ rlRet[1].at > 0
  /\ rlRet[1].at <= rateLimitStore[rlRet[1].key].resetTime
  /\ ~rlRet[1].res.allowed

C21_CheckAfterResetIsFresh ==
  [][\A k \in Keys, n \in AttemptArgs, w \in Windows :
       (CheckRateLimitOn(k, n, w, winCalls[k] = -1) /\ winCalls[k] = -1 /\ n >= 1) =>
         /\ rlRet'[1].res.allowed
         /\ rlRet'[1].res.remaining = n - 1
         /\ rlRet'[1].res.resetTime = clock + w
         /\ rateLimitStore'[k] = [attempts |-> 1, resetTime |-> clock + w]]_vars

\* the case of C21: a key was blocked in a window that is still open on the
\* store that is never cleaned up, was reset, and its next check is allowed
C21_Witness ==
  /\ rlRet # <<>>
  /\ rlRet[1].afterReset
  /\ rlRet[1].at > 0
  /\ rlRet[1].res.allowed
  /\ rlRet[1].res.remaining = rlRet[1].maxAttempts - 1
  /\ rateLimitStore[rlRet[1].key].resetTime = rlRet[1].at + rlRet[1].windowMs

\* C22: a successful login clears the rate-limit record of the client's key,
\* the login that follows it is counted as the first of a new run, and each
\* of the first five logins of a run is evaluated against the credentials
\* (401 on a wrong password) and not answered 429.
C22_SuccessfulLoginClearsRecord ==
  /\ [][\A p \in Procs :
          (req[p].pc = "login_verify" /\ req'[p].pc = "done" /\ req'[p].resp.status = 200) =>
            LoginKey(req[p].ip) \notin DOMAIN rateLimitStore']_vars
  /\ [][\A p \in Procs :
          (req[p].pc = "idle" /\ req'[p].route = "login" /\ req'[p].attempt # 0
             /\ winCalls[LoginKey(req'[p].ip)] = -1) =>
            (req'[p].attempt = 1 /\ req'[p].pc = "login_find")]_vars
  /\ [](\A p \in Procs :
          (req[p].route = "login" /\ req[p].pc = "done"
             /\ req[p].attempt >= 1 /\ req[p].attempt <= LoginMaxAttempts) =>
            /\ req[p].resp.status # 429
            /\ req[p].lookups >= 1
            /\ WrongPasswordLogin(req[p]) => req[p].resp.status = 401)

\* the case of C22: the only address in use has logged in successfully and
\* its fifth login since, in the same window, is answered 401
C22_Witness ==
  \E p \in Procs :
    /\ req[p].route = "login" /\ req[p].pc = "done"
    /\ req[p].attempt = LoginMaxAttempts
    /\ req[p].resp.status = 401
    /\ tokens # {}
    /\ clock < LoginWindowMs
    /\ \A ip \in IPs \ {req[p].ip} : winCalls[LoginKey(ip)] = 0


(***************************************************************************)
(* SpecConc: POST /api/auth/login requests with valid credentials, all     *)
(* from one client, in flight at the same time                             *)
(***************************************************************************)
\* one worker per request, taken in order of arrival: a request keeps its
\* worker once it is answered
ConcProcs == 1..MaxConcurrent
ConcIp == "ip1"

CcBegin ==
  /\ started < MaxConcurrent
  /\ LoginBegin(started + 1, EmailLower, SeedPassword, ConcIp)
CcFind == \E p \in ConcProcs : LoginFind(p)
CcVerify == \E p \in ConcProcs : LoginVerify(p)

InitConcSpec ==
  /\ InitTime /\ InitRL /\ InitDbSeeded
  /\ tokens = {}
  /\ req = [p \in ConcProcs |-> IdleReq]
  /\ started = 0
  /\ lastVerify = <<>>
NextConc == CcBegin \/ CcFind \/ CcVerify
SpecConc == InitConcSpec /\ [][NextConc]_vars

\* C23: every login with valid credentials, of any number issued concurrently
\* from one client, is answered 200 with the account's user id, and none is
\* answered 429.
C23_ConcurrentLoginsAllSucceed ==
  \A p \in ConcProcs :
    (req[p].route = "login" /\ req[p].pc = "done") =>
      /\ req[p].resp.status = 200
      /\ req[p].user.id = FindByEmail(users, EmailLower).id


(***************************************************************************)
(* SpecTok: the tokens of one account while its owner logs out, changes    *)
(* the email and the password, refreshes and deletes the account           *)
(***************************************************************************)
\* worker 1 serves the requests one after the other; worker 2 serves logouts
TokProcs == {1}
LogoutProcs == {2}
\* clock advances: a second, and up to the last second of an access token
TokSteps == {MsPerSec, (AuthTtl - 2) * MsPerSec}

TkBegin ==
  /\ started < MaxTokRequests
  /\ \E p \in TokProcs, route \in {"protected", "refresh"}, t \in tokens :
       RouteBegin(p, route, Header(TRUE, t), NoString, "", "", 0)
TkLogoutBegin ==
  /\ started < MaxTokRequests
  /\ \E p \in LogoutProcs, t \in AuthTokens :
       RouteBegin(p, "logout", Header(TRUE, t), NoString, "", "", 0)
TkPutBegin ==
  /\ started < MaxTokRequests
  /\ \E p \in TokProcs, t \in AuthTokens :
       RouteBegin(p, "profile_put", Header(TRUE, t), EmailOther, "", "", 0)
TkChangeBegin ==
  /\ started < MaxTokRequests
  /\ \E p \in TokProcs, t \in AuthTokens :
       RouteBegin(p, "change_password", Header(TRUE, t), NoString, SeedPassword, OtherPassword, 0)
TkDeleteBegin ==
  /\ started < MaxTokRequests
  /\ \E p \in TokProcs, t \in AuthTokens :
       RouteBegin(p, "profile_delete", Header(TRUE, t), NoString, SeedPassword, "", 0)
TkAuthGate == \E p \in TokProcs : AuthGate(p)
TkHandler == \E p \in TokProcs : Handler(p)
TkLogout == \E p \in LogoutProcs : LogoutHandler(p)
TkRefresh == \E p \in TokProcs : RefreshHandler(p)
TkPutCheck == \E p \in TokProcs : PutCheck(p)
TkPutUpdate == \E p \in TokProcs : PutUpdate(p)
TkChangeVerify == \E p \in TokProcs : ChangeVerify(p)
TkChangeExec == \E p \in TokProcs : ChangeExec(p)
TkDeleteVerify == \E p \in TokProcs : DeleteVerify(p)
TkDeleteExec == \E p \in TokProcs : DeleteExec(p)
TkFinish == \E p \in TokProcs \cup LogoutProcs : Finish(p)
TkTick ==
  /\ \E d \in TokSteps : Tick(d)
  /\ UNCHANGED <<rlVars, dbVars, reqVars>>

InitTokSpec == InitTime /\ InitRL /\ InitDbSeeded /\ InitSession
NextTok ==
  \/ TkBegin \/ TkLogoutBegin \/ TkPutBegin \/ TkChangeBegin \/ TkDeleteBegin
  \/ TkAuthGate \/ TkHandler \/ TkLogout \/ TkRefresh \/ TkPutCheck \/ TkPutUpdate
  \/ TkChangeVerify \/ TkChangeExec \/ TkDeleteVerify \/ TkDeleteExec \/ TkFinish \/ TkTick
SpecTok == InitTokSpec /\ [][NextTok]_vars

\* the request presented an issued access token to the mandatory gate, and the
\* gate has run
IssuedAtGate(r) ==
  /\ GatesOf(r.route) # <<>> /\ GatesOf(r.route)[1] = "authenticateToken"
  /\ r.seen /\ r.hdr.present /\ r.hdr.tok \in tokens /\ r.hdr.tok.type = "auth"

\* C24: a logout changes nothing the server keeps (users, rate-limit records,
\* issued tokens), and an issued access token presented to the mandatory gate
\* is accepted exactly when it is unexpired and its user exists, whatever
\* logouts, password changes, email changes and refreshes came before.
C24_TokenOutlivesLogout ==
  /\ [][\A p \in Procs :
          (req[p].pc = "logout_handler" /\ req'[p].pc = "done") =>
            /\ req'[p].resp.status = 200
            /\ UNCHANGED <<rateLimitStore, users, nextId, tokens>>]_vars
  /\ [](\A p \in Procs :
          IssuedAtGate(req[p]) =>
            /\ PassedGate(req[p], "authenticateToken") =
                 (NowSec(req[p].at) < req[p].hdr.tok.exp /\ ~req[p].gone)
            /\ PassedGate(req[p], "authenticateToken") =>
                 req[p].user.id = req[p].hdr.tok.userId)

\* the case of C24: a token issued before a logout that presented it, an email
\* change, a password change and a refresh is accepted in its last second
C24_Witness ==
  /\ req[1].route = "protected" /\ IssuedAtGate(req[1])
  /\ PassedGate(req[1], "authenticateToken")
  /\ req[1].hdr.tok.iat = 0 /\ NowSec(req[1].at) = req[1].hdr.tok.exp - 1
  /\ req[2].route = "logout" /\ req[2].pc = "done" /\ req[2].hdr = req[1].hdr
  /\ req[2].at < req[1].at
  /\ 1 \in DOMAIN users
  /\ users[1].email # req[1].hdr.tok.email
  /\ users[1].hash = HashPassword(OtherPassword)
  /\ Cardinality(AuthTokens) > 1


\* C25: the mandatory gate accepts an issued, unexpired access token of an
\* existing user whatever email the store now holds for that user, and the
\* identity it attaches carries the store's email, not the token's; a token
\* once issued keeps its claims; the access token minted by a refresh carries
\* the user id and the email of the refresh token.
C25_EmailClaimIsIssuanceTime ==
  /\ [][\A p \in Procs :
          (req[p].pc = "auth_gate" /\ req'[p].seen /\ req'[p].hdr.tok \in tokens
             /\ req'[p].hdr.tok.type = "auth" /\ NowSec(clock) < req'[p].hdr.tok.exp
             /\ req'[p].hdr.tok.userId \in DOMAIN users) =>
            /\ PassedGate(req'[p], "authenticateToken")
            /\ req'[p].user.id = req'[p].hdr.tok.userId
            /\ req'[p].user.email = users[req'[p].hdr.tok.userId].email]_vars
  /\ [][tokens \subseteq tokens']_vars
  /\ [][\A p \in Procs :
          (req[p].pc = "refresh_handler" /\ req'[p].resp.status = 200) =>
            /\ req'[p].ret.tok \in tokens'
            /\ req'[p].ret.tok.type = "auth"
            /\ req'[p].ret.tok.userId = req[p].hdr.tok.userId
            /\ req'[p].ret.tok.email = req[p].hdr.tok.email]_vars

\* the case of C25: an access token minted by a refresh, carrying the email
\* of the refresh token, was accepted with the store's new email attached
C25_Witness ==
  /\ req[1].route = "protected" /\ PassedGate(req[1], "authenticateToken")
  /\ req[1].hdr.tok.iat > 0
  /\ req[1].hdr.tok.email = EmailLower
  /\ req[1].user.email = EmailOther
  /\ users[1].email = EmailOther


\* a login request for an email that has no account, answered after the lookup
NoAccountLogin(r) ==
  /\ r.route = "login" /\ r.pc = "done" /\ r.lookups >= 1
  /\ FindByEmail(users, r.arg) = NoUser
\* the response to a login whose credentials were checked and refused
LoginRefused ==
  [status |-> 401, code |-> "AUTH_TOKEN_INVALID", msg |-> "Invalid email or password",
   n |-> 1, retryAfter |-> -1]

\* C26: a login for an email without an account and a login with a wrong
\* password for an existing account get the same response (401
\* AUTH_TOKEN_INVALID 'Invalid email or password'); what a login does to the
\* rate-limit record when it arrives, and whether it is answered 429, depends
\* on the client's key and the record only, and neither refusal touches the
\* record afterwards.
C26_RefusalsIndistinguishable ==
  /\ [](\A p \in Procs :
          (\/ NoAccountLogin(req[p])
           \/ WrongPasswordLogin(req[p]) /\ req[p].pc = "done" /\ req[p].lookups >= 1) =>
            req[p].resp = LoginRefused)
  /\ [][\A p \in Procs :
          (req[p].pc = "idle" /\ req'[p].route = "login" /\ req'[p].attempt # 0) =>
            LET k == LoginKey(req'[p].ip)
            IN /\ rateLimitStore' = CheckStore(rateLimitStore, k, LoginMaxAttempts,
                                               LoginWindowMs, clock)
               /\ (req'[p].resp.status = 429) =
                    ~CheckResult(rateLimitStore, k, LoginMaxAttempts, LoginWindowMs,
                                 clock).allowed
               /\ req'[p].resp.status \in {0, 429}]_vars
  /\ [][\A p \in Procs :
          (req[p].pc \in {"login_find", "login_verify"} /\ req'[p].resp.status # 200) =>
            UNCHANGED rateLimitStore]_vars

\* the case of C26: a login for an unknown email is refused after a login with
\* a wrong password was refused, both within one window of the same client
C26_Witness ==
  /\ NoAccountLogin(req[1]) /\ req[1].resp = LoginRefused
  /\ req[1].attempt >= 2
  /\ lastVerify # <<>> /\ ~lastVerify[1].accepted
  /\ tokens = {}
  /\ \A ip \in IPs \ {req[1].ip} : winCalls[LoginKey(ip)] = 0


\* the token checks of the refresh-token gate, at the time it ran
RefreshChecksPass(r) ==
  /\ r.hdr.tok.fmt = "jwt" /\ r.hdr.tok.sig = "ok"
  /\ NowSec(r.at) < r.hdr.tok.exp /\ r.hdr.tok.type = "refresh"
\* the gate attached the user of the token and called next()
RefreshGatePassed(r) ==
  /\ r.passed = <<"validateRefreshToken">> /\ r.rejectedBy = ""
  /\ r.user.id = r.hdr.tok.userId
\* the gate answered, without next() and without an identity
RefreshGateAnswered(r, status, code) ==
  /\ r.rejectedBy = "validateRefreshToken" /\ r.passed = <<>> /\ r.user = NoUser
  /\ r.resp.n = 1 /\ r.resp.status = status /\ r.resp.code = code

\* C27 (as stated): the refresh-token gate answers 400 AUTH_TOKEN_MISSING
\* without a refreshToken in the body, 401 AUTH_TOKEN_INVALID when the token
\* fails verification or is not of kind refresh, 401 USER_NOT_FOUND when its
\* user is absent, and in exactly the remaining case attaches the user and
\* calls next().
C27_RefreshGateDecision ==
  \A p \in Procs :
    LET r == req[p]
    IN (r.route = "refresh_gate" /\ r.seen) =>
         IF r.hdr.tok.fmt = "empty" THEN RefreshGateAnswered(r, 400, "AUTH_TOKEN_MISSING")
         ELSE IF ~RefreshChecksPass(r) THEN RefreshGateAnswered(r, 401, "AUTH_TOKEN_INVALID")
         ELSE IF r.gone THEN RefreshGateAnswered(r, 401, "USER_NOT_FOUND")
         ELSE RefreshGatePassed(r)

\* C27 (amended): as above, except that when the token checks pass and the
\* store lookup fails the gate answers 500 INTERNAL_ERROR, without next().
C27_RefreshGateDecisionOrStoreFailure ==
  \A p \in Procs :
    LET r == req[p]
    IN (r.route = "refresh_gate" /\ r.seen) =>
         IF r.hdr.tok.fmt = "empty" THEN RefreshGateAnswered(r, 400, "AUTH_TOKEN_MISSING")
         ELSE IF ~RefreshChecksPass(r) THEN RefreshGateAnswered(r, 401, "AUTH_TOKEN_INVALID")
         ELSE IF ~r.dbOk
           THEN RefreshGateAnswered(r, 500, "INTERNAL_ERROR")
                  /\ r.resp.msg = "Token validation failed"
         ELSE IF r.gone THEN RefreshGateAnswered(r, 401, "USER_NOT_FOUND")
         ELSE RefreshGatePassed(r)

\* the case of C27: an issued refresh token of an existing user reached the
\* refresh-token gate while the store was failing
C27_Witness ==
  \E p \in Procs :
    /\ req[p].route = "refresh_gate" /\ req[p].seen /\ RefreshChecksPass(req[p])
    /\ req[p].hdr.tok \in tokens /\ ~req[p].gone /\ ~req[p].dbOk
    /\ req[p].resp.status = 500


(***************************************************************************)
(* SpecOpt: the optional gate and the ownership gate next to the mandatory *)
(* and the refresh-token gate, with the user deleted, tokens ageing and    *)
(* the store failing                                                       *)
(***************************************************************************)
OptRoutes == {"optional", "protected", "refresh_gate"}
OwnedRoutes == {"owned", "bare_owned", "optional_owned", "refresh_owned"}
\* path parameters: the account's id, another id, an id followed by a
\* letter, an id after a blank, a word, nothing
OwnedPaths == {<<"1">>, <<"2">>, <<"1", "a">>, <<" ", "1">>, <<"a">>, NoString}
OwnedHeaders == {NoHeader} \cup {Header(TRUE, t) : t \in tokens}

OpBegin ==
  /\ started < MaxGateRequests
  /\ \E p \in GateProcs, route \in OptRoutes, hdr \in GateHeaders :
       RouteBegin(p, route, hdr, NoString, "", "", 0)
OpOwnedBegin ==
  /\ started < MaxGateRequests
  /\ \E p \in GateProcs, route \in OwnedRoutes, hdr \in OwnedHeaders, seg \in OwnedPaths :
       PathBegin(p, route, hdr, seg)
OpAuthGate == \E p \in GateProcs : AuthGate(p)
OpOptGate == \E p \in GateProcs : OptGate(p)
OpRefreshGate == \E p \in GateProcs : RefreshGate(p)
OpOwnGate == \E p \in GateProcs : OwnGate(p)
OpHandler == \E p \in GateProcs : Handler(p)
OpUserDelete == dbUp /\ StoreDelete(1)
OpFinish == \E p \in GateProcs : Finish(p)
OpTick ==
  /\ clock < GateHorizon
  /\ \E d \in GateSteps : Tick(d)
  /\ UNCHANGED <<rlVars, dbVars, reqVars>>

InitOptSpec == InitTime /\ InitRL /\ InitDbSeeded /\ InitSession
NextOpt ==
  \/ OpBegin \/ OpOwnedBegin \/ OpAuthGate \/ OpOptGate \/ OpRefreshGate \/ OpOwnGate
  \/ OpHandler \/ OpUserDelete \/ OpFinish \/ OpTick \/ DbFail \/ DbRecover
SpecOpt == InitOptSpec /\ [][NextOpt]_vars

\* C28: the optional gate, given no Authorization header, calls next() with no
\* identity and sends nothing; given a header, it does to the request what the
\* mandatory gate does for the same header, table, store condition and time.
C28_OptionalGateAsMandatory ==
  [][\A p \in Procs :
       (req[p].pc = "optional_gate" /\ req'[p].pc # "optional_gate") =>
         LET o == AuthenticateToken(req[p].hdr, users, dbUp, clock)
         IN IF ~req[p].hdr.present
              THEN /\ req'[p].passed = <<"optionalAuth">>
                   /\ req'[p].user = NoUser /\ req'[p].resp = NoResp
                   /\ req'[p].rejectedBy = ""
            ELSE /\ (req'[p].passed = <<"optionalAuth">>) = o.next
                 /\ req'[p].user = o.user
                 /\ o.next => req'[p].resp = NoResp /\ req'[p].rejectedBy = ""
                 /\ ~o.next =>
                      /\ req'[p].pc = "done" /\ req'[p].passed = <<>>
                      /\ req'[p].resp.n = 1 /\ req'[p].resp.status = o.status
                      /\ req'[p].resp.code = o.code /\ req'[p].resp.msg = o.msg]_vars

\* the case of C28: the optional gate rejected a request that carried a header
C28_Witness ==
  \E p \in Procs :
    /\ req[p].route = "optional" /\ req[p].seen /\ req[p].hdr.present
    /\ req[p].hdr.tok \in tokens /\ req[p].hdr.tok.type = "auth"
    /\ req[p].rejectedBy = "optionalAuth"
    /\ req[p].resp.status = 401 /\ req[p].resp.code = "AUTH_TOKEN_EXPIRED"


\* the identity of the request was attached by authenticateToken, called as a
\* gate of the route or by optionalAuth
IdentityByMandatoryGate(r) ==
  \/ PassedGate(r, "authenticateToken")
  \/ PassedGate(r, "optionalAuth") /\ r.hdr.present

\* C29: the ownership gate calls next() only for a request whose identity was
\* attached by the mandatory gate and whose path parameter, read as parseInt
\* reads it, is the id of that identity; without such an identity it answers
\* 401 AUTH_TOKEN_MISSING, and with a parameter that is another id or no
\* number it answers 403 AUTH_CREDENTIALS_INVALID.
C29_OwnershipGateDecision ==
  [][\A p \in Procs :
       (req[p].pc = "own_gate" /\ req'[p].pc # "own_gate") =>
         LET r == req[p]
             own == ParseInt(r.path) = r.user.id
         IN /\ PassedGate(req'[p], "requireOwnership") = (IdentityByMandatoryGate(r) /\ own)
            /\ PassedGate(req'[p], "requireOwnership") =>
                 req'[p].pc = "handler" /\ req'[p].resp = NoResp /\ req'[p].user = r.user
            /\ ~IdentityByMandatoryGate(r) =>
                 /\ req'[p].rejectedBy = "requireOwnership" /\ req'[p].resp.n = 1
                 /\ req'[p].resp.status = 401 /\ req'[p].resp.code = "AUTH_TOKEN_MISSING"
            /\ (IdentityByMandatoryGate(r) /\ ~own) =>
                 /\ req'[p].rejectedBy = "requireOwnership" /\ req'[p].resp.n = 1
                 /\ req'[p].resp.status = 403
                 /\ req'[p].resp.code = "AUTH_CREDENTIALS_INVALID"]_vars

\* the case of C29: a request without an Authorization header went through the
\* optional gate and was stopped by the ownership gate, though its path names
\* an existing account
C29_Witness ==
  \E p \in Procs :
    /\ req[p].route = "optional_owned" /\ req[p].passed = <<"optionalAuth">>
    /\ ~req[p].hdr.present /\ req[p].path = <<"1">> /\ 1 \in DOMAIN users
    /\ req[p].rejectedBy = "requireOwnership"
    /\ req[p].resp.status = 401 /\ req[p].resp.code = "AUTH_TOKEN_MISSING"


\* the gate that consults the store first on each route, and the message of
\* its catch block
LookupGate(route) ==
  CASE route \in {"optional", "optional_owned"} -> "optionalAuth"
    [] route \in {"refresh_gate", "refresh_owned"} -> "validateRefreshToken"
    [] route \in {"protected", "owned"} -> "authenticateToken"
    [] OTHER -> ""
CatchMessage(gate) ==
  IF gate = "validateRefreshToken" THEN "Token validation failed" ELSE "Authentication failed"

\* C30: a request whose store lookup failed in the mandatory, the optional or
\* the refresh-token gate is answered 500 INTERNAL_ERROR with the gate's fixed
\* message, once; next() is not called, no identity is attached and no later
\* gate or handler runs.
C30_StoreFailureAnswered500 ==
  \A p \in Procs :
    LET r == req[p]
    IN (LookupGate(r.route) # "" /\ r.seen /\ ~r.dbOk /\ r.lookups >= 1) =>
         /\ r.pc = "done" /\ r.rejectedBy = LookupGate(r.route)
         /\ r.resp = [n |-> 1, status |-> 500, code |-> "INTERNAL_ERROR",
                      msg |-> CatchMessage(LookupGate(r.route)), retryAfter |-> -1]
         /\ r.passed = <<>> /\ r.user = NoUser /\ ~r.handlerRan

\* the case of C30: the optional gate was given an issued, unexpired access
\* token of an existing user while the store was failing
C30_Witness ==
  \E p \in Procs :
    /\ req[p].route = "optional" /\ req[p].seen /\ ~req[p].dbOk /\ req[p].lookups = 1
    /\ req[p].hdr.tok \in tokens /\ req[p].hdr.tok.type = "auth"
    /\ NowSec(req[p].at) < req[p].hdr.tok.exp /\ ~req[p].gone
    /\ req[p].resp.status = 500


(***************************************************************************)
(* SpecRem: logins with and without rememberMe                             *)
(***************************************************************************)
\* clock advances: half a second, and a second
RemSteps == {500, MsPerSec}

RmBegin ==
  /\ started < MaxRememberLogins
  /\ \E p \in LoginProcs, pw \in LoginPasswords, rememberMe \in BOOLEAN :
       LoginBeginWith(p, EmailLower, pw, "ip1", rememberMe)
RmFind == \E p \in LoginProcs : LoginFind(p)
RmVerify == \E p \in LoginProcs : LoginVerify(p)
RmFinish == \E p \in LoginProcs : Finish(p)
RmTick ==
  /\ \E d \in RemSteps : Tick(d)
  /\ UNCHANGED <<rlVars, dbVars, reqVars>>

NextRem == RmBegin \/ RmFind \/ RmVerify \/ RmFinish \/ RmTick
SpecRem == InitLoginSpec /\ [][NextRem]_vars

\* the tokens of the given kind that a login answered at this moment returns
ReturnedNow(r, type) ==
  {t \in tokens' : t.type = type /\ t.userId = r.user.id /\ t.iat = NowSec(clock)}

\* C31: the access token a successful login returns lives (exp - iat) as long
\* as the response's expiresIn says, 30 days (more than 25) with rememberMe and
\* 24 hours without, and the access and the refresh token live as long as the
\* handler asked for.
C31_RememberMeLifetime ==
  [][\A p \in Procs :
       (req[p].pc = "login_verify" /\ req'[p].resp.status = 200) =>
         /\ ReturnedNow(req[p], "auth") # {} /\ ReturnedNow(req[p], "refresh") # {}
         /\ \A t \in ReturnedNow(req[p], "auth") :
              /\ t.exp - t.iat = ReportedExpiresIn(req[p].remember)
              /\ t.exp - t.iat = RequestedAuthTtl(req[p].remember)
              /\ req[p].remember => t.exp - t.iat > 25 * DaySec
         /\ \A t \in ReturnedNow(req[p], "refresh") :
              t.exp - t.iat = RequestedRefreshTtl(req[p].remember)]_vars


\* C32: a user row is removed only by a DELETE /profile request whose
\* confirmation password is the password stored for that user when the handler
\* verified it; a delete request with a missing or wrong confirmation password
\* removes nothing.
C32_DeleteNeedsCurrentPassword ==
  /\ [][\A p \in Procs :
          (req[p].pc = "delete_verify" /\ req'[p].pc = "delete_exec"
             /\ req[p].user.id \in DOMAIN users) =>
            BcryptCompare(req[p].password, users[req[p].user.id].hash)]_vars
  /\ [][\A id \in DOMAIN users :
          id \notin DOMAIN users' =>
            \E p \in Procs : req[p].pc = "delete_exec" /\ req[p].user.id = id
                               /\ req'[p].resp.status = 200]_vars
  /\ [][\A p \in Procs :
          (req[p].pc = "delete_verify" /\ req'[p].pc # "delete_verify"
             /\ req[p].user.id \in DOMAIN users
             /\ ~BcryptCompare(req[p].password, users[req[p].user.id].hash)) =>
            (req'[p].pc # "delete_exec" /\ DOMAIN users' = DOMAIN users)]_vars


(***************************************************************************)
(* Error boundary (errors.js, errorHandler.js)                             *)
(***************************************************************************)
\* number of errors handled in one behaviour of SpecErr
MaxErrCalls == 2

\* a message is the sequence of the parts it is put together from (the
\* literals and the interpolated values of a template string)
Text(s) == <<s>>
Contains(msg, s) == s # "" /\ \E i \in 1..Len(msg) : msg[i] = s

\* an Error that is no AppError, with the properties the handler reads
RawError(name, message, code, constraint, detail, column, type) ==
  [app |-> FALSE, name |-> name, message |-> Text(message), stack |-> "at " \o name,
   code |-> code, constraint |-> constraint, detail |-> detail, column |-> column,
   type |-> type, statusCode |-> 0, errorCode |-> "", originalError |-> <<>>,
   fields |-> <<>>, hasFields |-> FALSE, retryAfter |-> 0]

\* class AppError and its subclasses: name is the constructor's name
AppError(name, message, statusCode, errorCode) ==
  [app |-> TRUE, name |-> name, message |-> message, stack |-> "at " \o name,
   code |-> NoString, constraint |-> NoString, detail |-> "", column |-> "",
   type |-> "", statusCode |-> statusCode, errorCode |-> errorCode,
   originalError |-> <<>>, fields |-> <<>>, hasFields |-> FALSE, retryAfter |-> 0]

\* createError.*
AuthenticationFailed(message) ==
  AppError("AuthenticationError", Text(message), 401, "AUTH_TOKEN_INVALID")
MissingFields(fields) ==
  [AppError("MissingFieldsError", <<"Missing required fields: ">> \o fields, 400,
            "MISSING_REQUIRED_FIELDS")
     EXCEPT !.fields = fields, !.hasFields = TRUE]
UserAlreadyExists(email) ==
  AppError("UserAlreadyExistsError", <<"User with email ", email, " already exists">>, 409,
           "USER_ALREADY_EXISTS")
Conflict(message) == AppError("ConflictError", Text(message), 409, "USER_ALREADY_EXISTS")
BadRequest(message) == AppError("AppError", Text(message), 400, "BAD_REQUEST")
InternalError(message) == AppError("AppError", Text(message), 500, "INTERNAL_ERROR")
DatabaseError(message, originalError) ==
  [AppError("DatabaseError", Text(message), 500, "DATABASE_QUERY_ERROR")
     EXCEPT !.originalError = <<originalError>>]
DatabaseConnectionError(message) ==
  AppError("DatabaseConnectionError", Text(message), 500, "DATABASE_CONNECTION_ERROR")
RateLimitExceeded(message, retryAfter) ==
  [AppError("RateLimitError", Text(message), 429, "RATE_LIMIT_EXCEEDED")
     EXCEPT !.retryAfter = retryAfter]

\* error.constraint && error.constraint.includes('email'), on a constraint
\* name given as its words
ConstraintIncludesEmail(constraint) ==
  \E i \in 1..Len(constraint) : constraint[i] = "email"

\* handleDatabaseError(error): the switch on error.code
HandleDatabaseErrorOff(error) == DatabaseError("Database operation failed", error)
HandleDatabaseError(error) ==
  CASE error.code = <<"2", "3", "5", "0", "5">> ->
         IF ConstraintIncludesEmail(error.constraint)
           THEN UserAlreadyExists(error.detail)
           ELSE Conflict("Resource already exists")
    [] error.code = <<"2", "3", "5", "0", "3">> -> BadRequest("Invalid reference")
    [] error.code = <<"2", "3", "5", "0", "2">> -> MissingFields(<<error.column>>)
    [] error.code = <<"2", "2", "0", "0", "1">> -> BadRequest("Data too long for field")
    [] error.code \in {<<"0", "8", "0", "0", "0">>, <<"0", "8", "0", "0", "3">>,
                       <<"0", "8", "0", "0", "6">>} ->
         DatabaseConnectionError("Database connection failed")
    [] OTHER -> DatabaseError("Database operation failed", error)

\* err.code && typeof err.code === 'string' && err.code.match(/^\d+$/)
IsDigitChar(c) == c \in {"0", "1", "2", "3", "4", "5", "6", "7", "8", "9"}
HasNumericCode(err) ==
  err.code # NoString /\ \A i \in 1..Len(err.code) : IsDigitChar(err.code[i])

\* the conversion of an Error that is no AppError
ConvertGeneric(err, env) ==
  CASE err.name = "ValidationError" -> AppError("AppError", err.message, 400, "VALIDATION_ERROR")
    [] err.name = "CastError" -> BadRequest("Invalid data format")
    [] err.type = "entity.parse.failed" -> BadRequest("Invalid JSON format")
    [] err.type = "entity.too.large" -> BadRequest("Request payload too large")
    [] err.name = "MulterError" -> BadRequest("File upload error")
    [] OTHER -> AppError("AppError",
                         IF env = "development" THEN err.message
                                                ELSE Text("Internal server error"),
                         500, "INTERNAL_ERROR")

\* the AppError the handler answers with
ErrorHandlerOff(err, env) == IF err.app THEN err ELSE ConvertGeneric(err, env)
BoundaryError(err, env) ==
  LET error == IF HasNumericCode(err) THEN HandleDatabaseError(err) ELSE err
  IN IF error.app THEN error ELSE ConvertGeneric(err, env)

\* JSON.stringify of an Error object: its own enumerable properties, which
\* leaves out message and stack
SerializeError(e) ==
  [code |-> e.code, constraint |-> e.constraint, detail |-> e.detail, column |-> e.column]

\* errorHandler(err, req, res, next): the status and the body sent
ErrorResponse(err, env) ==
  LET error == BoundaryError(err, env)
      dev == env = "development"
  IN [status |-> error.statusCode, code |-> error.errorCode, message |-> error.message,
      details |-> IF dev
                    THEN <<[name |-> error.name, statusCode |-> error.statusCode,
                            stack |-> error.stack,
                            originalError |->
                              IF error.originalError # <<>>
                                THEN <<SerializeError(error.originalError[1])>>
                                ELSE <<>>]>>
                    ELSE <<>>,
      fields |-> IF dev /\ error.hasFields THEN <<error.fields>> ELSE <<>>,
      retryAfter |-> RetryAfterHeader(error.statusCode, error.retryAfter)]

ErrorHandler(p, err, env) ==
  /\ Begin(p)
  /\ SetReq(p, [IdleReq EXCEPT !.route = "errorHandler", !.pc = "done", !.err = <<err>>,
                               !.env = env, !.body = <<ErrorResponse(err, env)>>,
                               !.resp = [@ EXCEPT !.n = 1,
                                                  !.status = ErrorResponse(err, env).status,
                                                  !.code = ErrorResponse(err, env).code]])
  /\ UNCHANGED <<timeVars, rlVars, dbVars, tokens, lastVerify>>

\* the errors of the store driver (pg): SQLSTATE codes, the constraint, the
\* detail and the column the server reports
PgCodes ==
  {<<"2", "3", "5", "0", "5">>, <<"2", "3", "5", "0", "3">>, <<"2", "3", "5", "0", "2">>,
   <<"2", "2", "0", "0", "1">>, <<"0", "8", "0", "0", "0">>, <<"0", "8", "0", "0", "3">>,
   <<"0", "8", "0", "0", "6">>, <<"0", "8", "0", "0", "1">>, <<"4", "2", "6", "0", "1">>,
   <<"4", "2", "P", "0", "1">>}
PgConstraints == {NoString, <<"users", "email", "key">>, <<"users", "pkey">>}
PgDetail == "Key (email)=(a@b.c) already exists."
PgMessage == "duplicate key value violates unique constraint"
StoreErrors ==
  {RawError("error", PgMessage, code, constraint, PgDetail, "email", "") :
     code \in PgCodes, constraint \in PgConstraints}
\* errors thrown by the runtime, the body parser and libraries
ForeignMessage == "Cannot read properties of undefined"
ForeignErrors ==
  {RawError(name, ForeignMessage, NoString, NoString, "", "", type) :
     name \in {"Error", "TypeError", "ValidationError", "CastError", "MulterError"},
     type \in {"", "entity.parse.failed", "entity.too.large"}}
\* errors the routes throw
ThrownAppErrors ==
  {AuthenticationFailed("Invalid email or password"), MissingFields(<<"email", "password">>),
   UserAlreadyExists("a@b.c"), InternalError("Failed to delete account"),
   RateLimitExceeded("Too many login attempts. Please try again later.", 900),
   DatabaseConnectionError("Database connection failed")}
NodeEnvs == {"production", "development", "test"}

ErStore == \E err \in StoreErrors, env \in NodeEnvs : started < MaxErrCalls /\ ErrorHandler(1, err, env)
ErForeign == \E err \in ForeignErrors, env \in NodeEnvs : started < MaxErrCalls /\ ErrorHandler(1, err, env)
ErApp == \E err \in ThrownAppErrors, env \in NodeEnvs : started < MaxErrCalls /\ ErrorHandler(1, err, env)
ErFinish == Finish(1)
NextErr == ErStore \/ ErForeign \/ ErApp \/ ErFinish
InitErrSpec == InitTime /\ InitRL /\ InitDb /\ InitReq
SpecErr == InitErrSpec /\ [][NextErr]_vars

\* the request of worker p has been answered by the error handler
Handled(p) == req[p].route = "errorHandler" /\ req[p].pc = "done"
\* the error came from the store driver
StoreOrigin(err) == ~err.app /\ err.code # NoString
\* the body carries text of the store's error: in the message or in the details
CarriesStoreText(body, err) ==
  \/ Contains(body.message, err.message[1])
  \/ Contains(body.message, err.detail)
  \/ \E i \in 1..Len(body.details) :
       \E j \in 1..Len(body.details[i].originalError) :
         body.details[i].originalError[j].detail # ""

\* C33: no response contains raw storage-layer error text: a store error is
\* answered by its violation code (unique violation 409, foreign key 400
\* BAD_REQUEST, not-null 400 MISSING_REQUIRED_FIELDS, connection class 500
\* DATABASE_CONNECTION_ERROR) with a message that takes nothing from the
\* store's error.
C33_NoRawStoreText ==
  \A p \in Procs :
    (Handled(p) /\ StoreOrigin(req[p].err[1])) =>
      LET err == req[p].err[1]
          body == req[p].body[1]
      IN /\ ~CarriesStoreText(body, err)
         /\ err.code = <<"2", "3", "5", "0", "5">> => body.status = 409
         /\ err.code = <<"2", "3", "5", "0", "3">> =>
              (body.status = 400 /\ body.code = "BAD_REQUEST")
         /\ err.code = <<"2", "3", "5", "0", "2">> =>
              (body.status = 400 /\ body.code = "MISSING_REQUIRED_FIELDS")
         /\ (err.code[1] = "0" /\ err.code[2] = "8") =>
              (body.status = 500 /\ body.code = "DATABASE_CONNECTION_ERROR")


\* no branch of the handler recognizes the error: it is no AppError, carries
\* no numeric store code and none of the names and types the handler converts
Unrecognized(err) ==
  /\ ~err.app
  /\ ~HasNumericCode(err)
  /\ err.name \notin {"ValidationError", "CastError", "MulterError"}
  /\ err.type \notin {"entity.parse.failed", "entity.too.large"}

\* the body carries detail of the error handled: its message, its stack, its
\* name, the store's detail, or a details block
CarriesInternalDetail(body, err) ==
  \/ Contains(body.message, err.message[1])
  \/ Contains(body.message, err.stack)
  \/ Contains(body.message, err.name)
  \/ Contains(body.message, err.detail)
  \/ body.details # <<>>
  \/ body.fields # <<>>

\* C34: in production mode an error that is no recognized application error
\* is answered 500 INTERNAL_ERROR with a generic message, and no response in
\* production mode carries internal detail of an error that is no
\* application error, nor a details block.
C34_ProductionHidesInternals ==
  \A p \in Procs :
    (Handled(p) /\ req[p].env = "production") =>
      LET err == req[p].err[1]
          body == req[p].body[1]
      IN /\ Unrecognized(err) =>
              /\ body.status = 500
              /\ body.code = "INTERNAL_ERROR"
              /\ body.message = Text("Internal server error")
         /\ body.details = <<>> /\ body.fields = <<>>
         /\ ~err.app => ~CarriesInternalDetail(body, err)


(***************************************************************************)
(* Password strength (SecurityUtils.validatePasswordStrength)              *)
(***************************************************************************)
\* number of strength checks served in one behaviour of SpecStrength
MaxStrengthCalls == 2
\* longest password drawn from StrengthAlphabet
MaxPasswordLen == 3

LowerLetters ==
  <<"a", "b", "c", "d", "e", "f", "g", "h", "i", "j", "k", "l", "m",
    "n", "o", "p", "q", "r", "s", "t", "u", "v", "w", "x", "y", "z">>
UpperLetters ==
  <<"A", "B", "C", "D", "E", "F", "G", "H", "I", "J", "K", "L", "M",
    "N", "O", "P", "Q", "R", "S", "T", "U", "V", "W", "X", "Y", "Z">>
\* /[a-z]/, /[A-Z]/ and /[!@#$%^&*(),.?":{}|<>]/ on one character
IsLowerChar(c) == \E i \in 1..Len(LowerLetters) : LowerLetters[i] = c
IsUpperChar(c) == \E i \in 1..Len(UpperLetters) : UpperLetters[i] = c
IsSpecialChar(c) ==
  c \in {"!", "@", "#", "$", "%", "^", "&", "*", "(", ")", ",", ".", "?", "\"", ":",
         "{", "}", "|", "<", ">"}
\* the case folding of the i flag
FoldChar(c) ==
  IF IsUpperChar(c)
    THEN LowerLetters[CHOOSE i \in 1..Len(UpperLetters) : UpperLetters[i] = c]
    ELSE c
Some(s, Test(_)) == \E i \in 1..Len(s) : Test(s[i])
\* /(.)\1{2,}/: a character followed by itself at least twice
HasRepeatedChars(s) == \E i \in 1..(Len(s) - 2) : s[i + 1] = s[i] /\ s[i + 2] = s[i]
\* /123|abc|qwe/i
HasSequence(s, w) ==
  \E i \in 1..(Len(s) - 2) : \A k \in 1..3 : FoldChar(s[i + k - 1]) = w[k]
HasCommonSequence(s) ==
  \E w \in {<<"1", "2", "3">>, <<"a", "b", "c">>, <<"q", "w", "e">>} : HasSequence(s, w)

Bonus(cond) == IF cond THEN 1 ELSE 0
Advice(cond, text) == IF cond THEN <<text>> ELSE <<>>
Max(a, b) == IF a >= b THEN a ELSE b

\* the score before Math.max(0, score)
StrengthScore(password) ==
  Bonus(Len(password) >= 8) + Bonus(Len(password) >= 12)
  + Bonus(Some(password, IsLowerChar)) + Bonus(Some(password, IsUpperChar))
  + Bonus(Some(password, IsDigitChar)) + Bonus(Some(password, IsSpecialChar))
  - Bonus(HasRepeatedChars(password)) - Bonus(HasCommonSequence(password))
StrengthFeedback(password) ==
  Advice(Len(password) < 8, "Use at least 8 characters")
  \o Advice(~Some(password, IsLowerChar), "Include lowercase letters")
  \o Advice(~Some(password, IsUpperChar), "Include uppercase letters")
  \o Advice(~Some(password, IsDigitChar), "Include numbers")
  \o Advice(~Some(password, IsSpecialChar), "Include special characters")
  \o Advice(HasRepeatedChars(password), "Avoid repeated characters")
  \o Advice(HasCommonSequence(password), "Avoid common sequences")
StrengthBucketOff(score) == "very-strong"
StrengthBucket(score) ==
  IF score <= 2 THEN "weak"
  ELSE IF score <= 4 THEN "medium"
  ELSE IF score <= 5 THEN "strong"
  ELSE "very-strong"

\* SecurityUtils.validatePasswordStrength(password)
ValidatePasswordStrength(password) ==
  IF password = NoString
    THEN [score |-> 0, strength |-> "very-weak", feedback |-> <<"Password is required">>]
    ELSE [score |-> Max(0, StrengthScore(password)),
          strength |-> StrengthBucket(StrengthScore(password)),
          feedback |-> IF StrengthFeedback(password) # <<>>
                         THEN StrengthFeedback(password)
                         ELSE <<"Password strength is good">>]

\* POST /api/auth/check-password-strength
CheckPasswordStrength(p, password) ==
  /\ Begin(p)
  /\ SetReq(p, IF password = NoString
                 THEN [Send([IdleReq EXCEPT !.route = "check_password_strength",
                                            !.arg = password, !.handlerRan = TRUE],
                            400, "MISSING_REQUIRED_FIELDS", "Missing required fields: password")
                         EXCEPT !.body = <<>>]
                 ELSE [Send([IdleReq EXCEPT !.route = "check_password_strength",
                                            !.arg = password, !.handlerRan = TRUE],
                            200, "", "Password strength analysis")
                         EXCEPT !.body =
                           <<[strength |-> ValidatePasswordStrength(password).strength,
                              score |-> ValidatePasswordStrength(password).score,
                              feedback |-> ValidatePasswordStrength(password).feedback,
                              isAcceptable |->
                                ValidatePasswordStrength(password).score >= 3]>>])
  /\ UNCHANGED <<timeVars, rlVars, dbVars, tokens, lastVerify>>

StrongPassword ==
  <<"S", "t", "r", "o", "n", "g", "P", "@", "s", "s", "w", "0", "r", "d", "1", "2", "3">>
WeakPassword == <<"1", "2", "3">>
StrengthAlphabet == {"a", "Q", "1", "2", "3", "!"}
RECURSIVE StringsUpTo(_)
StringsUpTo(n) ==
  IF n = 0 THEN {NoString}
  ELSE StringsUpTo(n - 1)
       \cup {Append(s, c) : s \in {t \in StringsUpTo(n - 1) : Len(t) = n - 1},
                            c \in StrengthAlphabet}
StrengthPasswords ==
  StringsUpTo(MaxPasswordLen)
  \cup {StrongPassword,
        <<"T", "r", "0", "u", "b", "4", "d", "o", "r", "&", "x", "y", "z", "Q">>,
        <<"a", "a", "a", "a", "a", "a", "a", "a", "A", "1", "!">>,
        <<"1", "2", "3", "a", "b", "c", "A", "!">>,
        <<"P", "a", "s", "s", "w", "o", "r", "d", "9", "!">>}

SgCheck ==
  \E password \in StrengthPasswords :
    started < MaxStrengthCalls /\ CheckPasswordStrength(1, password)
SgFinish == Finish(1)
NextStrength == SgCheck \/ SgFinish
InitStrengthSpec == InitTime /\ InitRL /\ InitDb /\ InitReq
SpecStrength == InitStrengthSpec /\ [][NextStrength]_vars

\* worker p has answered a strength check of password
Rated(p, password) ==
  req[p].route = "check_password_strength" /\ req[p].pc = "done" /\ req[p].arg = password

\* C35: the evaluator rates StrongP@ssw0rd123 very-strong, acceptable (score
\* at least 3) and reports it as good; it rates 123 weak, not acceptable,
\* with more than one feedback entry.
C35_StrengthOfExamples ==
  \A p \in Procs :
    /\ Rated(p, StrongPassword) =>
         /\ req[p].resp.status = 200
         /\ req[p].body[1].strength = "very-strong"
         /\ req[p].body[1].isAcceptable /\ req[p].body[1].score >= 3
         /\ req[p].body[1].feedback = <<"Password strength is good">>
    /\ Rated(p, WeakPassword) =>
         /\ req[p].resp.status = 200
         /\ req[p].body[1].strength = "weak"
         /\ ~req[p].body[1].isAcceptable
         /\ Len(req[p].body[1].feedback) > 1


\* clock advances in one behaviour of SpecReset
MaxResetTicks == 2
RsCheck == RLCheck
RsReset == RLReset
RsCleanup == RLCleanup
RsTick == ticks < MaxResetTicks /\ RLTick
NextReset == RsCheck \/ RsReset \/ RsCleanup \/ RsTick
SpecReset == InitRLSpec /\ [][NextReset]_vars

\* C36: resetRateLimit(key) on a key that has no record does not raise and
\* leaves the store unchanged; after a reset the key has no record, so one
\* more reset of the key changes nothing: any number of calls in a row
\* leaves the store one call leaves.
C36_ResetIdempotent ==
  /\ [](\A k \in Keys : ENABLED ResetRateLimit(k))
  /\ [][\A k \in Keys :
          ResetRateLimitOn(k) =>
            /\ k \notin DOMAIN rateLimitStore => rateLimitStore' = rateLimitStore
            /\ k \notin DOMAIN rateLimitStore'
            /\ \A j \in DOMAIN rateLimitStore' :
                 j \in DOMAIN rateLimitStore /\ rateLimitStore'[j] = rateLimitStore[j]]_vars
\* the last call on a key was resetRateLimit and the key has no record, next
\* to a key that has one
C36_Witness ==
  \E k \in Keys :
    /\ winCalls[k] = -1 /\ k \notin DOMAIN rateLimitStore
    /\ \E j \in DOMAIN rateLimitStore : j # k


\* the records of every key but k are the same before and after the step
OthersUntouched(k) ==
  \A j \in Keys \ {k} :
    /\ j \in DOMAIN rateLimitStore <=> j \in DOMAIN rateLimitStore'
    /\ j \in DOMAIN rateLimitStore => rateLimitStore'[j] = rateLimitStore[j]

MaxBruteLogins == 6
BruteProcs == 1..MaxBruteLogins
\* email, password, client: one client sends the account's email with its
\* password and with a wrong one, and an email no account has; a second
\* client sends the account's email with a wrong password
BruteRequests ==
  {<<EmailLower, SeedPassword, "ip1">>, <<EmailLower, WrongPassword, "ip1">>,
   <<EmailOther, WrongPassword, "ip1">>, <<EmailLower, WrongPassword, "ip2">>}
BruteEmails == {EmailLower, EmailOther}

\* requests are answered before the next one arrives; worker p serves the
\* p-th request
BrBegin ==
  /\ started < MaxBruteLogins
  /\ started > 0 => req[started].pc = "done"
  /\ \E c \in BruteRequests : LoginBegin(started + 1, c[1], c[2], c[3])
BrFind == \E p \in BruteProcs : LoginFind(p)
BrVerify == \E p \in BruteProcs : LoginVerify(p)
\* time passes once, and stays within the window of the first request
BrTick ==
  /\ ticks = 0
  /\ Tick(LoginWindowMs - 1)
  /\ UNCHANGED <<rlVars, dbVars, reqVars>>

InitBruteSpec ==
  /\ InitTime /\ InitRL /\ InitDbSeeded
  /\ tokens = {}
  /\ req = [p \in BruteProcs |-> IdleReq]
  /\ started = 0
  /\ lastVerify = <<>>
NextBrute == BrBegin \/ BrFind \/ BrVerify \/ BrTick
SpecBrute == InitBruteSpec /\ [][NextBrute]_vars

\* the logins for email that were answered, and those that failed the
\* credential check (unknown email or wrong password)
LoginsFor(email) ==
  {p \in BruteProcs : req[p].route = "login" /\ req[p].pc = "done" /\ req[p].arg = email}
FailedLogins(email) ==
  {p \in LoginsFor(email) : req[p].resp.status = 401 /\ req[p].lookups >= 1}

\* C37: within one window, once 5 logins for an account have failed (wrong
\* password or unknown email), every further login for that account is
\* answered 429; no more than 5 failed credential checks against one account
\* are performed in the window.
C37_FiveFailuresPerAccount ==
  \A e \in BruteEmails :
    /\ Cardinality(FailedLogins(e)) <= LoginMaxAttempts
    /\ \A p \in LoginsFor(e) :
         Cardinality({q \in FailedLogins(e) : q < p}) >= LoginMaxAttempts =>
           req[p].resp.status = 429


\* worker p takes a login request in this step and the limiter denies it
LoginDenied(p) ==
  req[p].pc = "idle" /\ req'[p].route = "login" /\ req'[p].resp.status = 429

\* C38: when the limiter denies a login, the handler makes no user lookup, no
\* password verification, no limiter reset and issues no token for it: the
\* request is answered 429 at once, also when its credentials are correct,
\* and the client is as blocked after it as before (same record, a further
\* check denied).
C38_DeniedLoginDoesNothing ==
  [][\A p \in BruteProcs :
       LoginDenied(p) =>
         /\ req'[p].pc = "done" /\ req'[p].resp.n = 1
         /\ req'[p].lookups = 0 /\ req'[p].user = NoUser
         /\ lastVerify' = lastVerify
         /\ tokens' = tokens
         /\ rateLimitStore' = rateLimitStore
         /\ LoginKey(req'[p].ip) \in DOMAIN rateLimitStore'
         /\ rateLimitStore'[LoginKey(req'[p].ip)].attempts >= LoginMaxAttempts
         /\ clock <= rateLimitStore'[LoginKey(req'[p].ip)].resetTime]_vars
\* a login with the account's password was answered 429, after the window of
\* its client had run for a while
C38_Witness ==
  \E p \in BruteProcs :
    /\ req[p].route = "login" /\ req[p].pc = "done" /\ req[p].resp.status = 429
    /\ req[p].email = EmailLower /\ req[p].password = SeedPassword
    /\ clock > 0


\* C39: POST /api/auth/refresh issues a new access token only for a userId
\* that has a record in the store at the time of the request; a refresh token
\* of a deleted user is answered 401 and no token is minted for it.
C39_RefreshNeedsStoredUser ==
  [][\A p \in Procs :
       (req[p].pc = "refresh_handler" /\ req'[p].pc = "done") =>
         /\ req'[p].resp.status = 200 => req[p].hdr.tok.userId \in DOMAIN users
         /\ (req[p].hdr.tok \in tokens /\ req[p].hdr.tok.type = "refresh"
               /\ req[p].hdr.tok.userId \notin DOMAIN users) =>
              /\ req'[p].resp.status = 401
              /\ req'[p].ret.tok = EmptyToken
              /\ tokens' = tokens]_vars

====
